---------------------------- MODULE Spec2Model ----------------------------
(***************************************************************************)
(* Model of the BOOM "First Sell" trading bot: StrategyEngine,             *)
(* RiskGuardian and Execution running on one Node.js event loop, the       *)
(* DailyStat collection they share, and the broker at the other end of the *)
(* socket.                                                                 *)
(*                                                                         *)
(* Every action is one macrotask of the event loop: an inbound frame, a    *)
(* database completion or a clock step, together with all the synchronous  *)
(* code and microtask continuations it runs.  A database operation is      *)
(* applied to the collection in the step that delivers its completion.     *)
(*                                                                         *)
(* Units: time in minutes (60000 ms), prices and money in tenths (4.0 is   *)
(* 40, 8.00 is 80).                                                        *)
(***************************************************************************)
EXTENDS Integers, Sequences, FiniteSets, TLC

\* ------------------------------------------------------------ constants

\* null / undefined of the source: every price and average is positive
Null == -1

MinutesPerDay == 1440
RATE_LIMIT_COOLDOWN == 1
CROSSOVER_COOLDOWN == 5
PAUSE_DURATION == 15
SPIKE_DELTA == 40
TRAIN_DELTA == 40
DAILY_CAP == 80
TP == 150
SL == 50
maxTickHistory == 5
MIN_CANDLES == 200
PERIOD_200 == 200
PERIOD_100 == 100
PERIOD_50 == 50
PERIOD_25 == 25

\* RiskGuardian of the multi-timeframe bot: drawdown threshold in thousandths,
\* length of the killswitch in minutes, session hours (UTC)
KILLSWITCH_THRESHOLD == 45
KILLSWITCH_MINUTES == 1440
SESSION_START_UTC_HOUR == 8
SESSION_END_UTC_HOUR == 21

\* backend config: length of the tick buffer
TICK_LIMIT == 10

\* deadline of a pending call, in seconds: the correlator of the design, the
\* source has none
CALL_DEADLINE == 5
\* delay of the open listener of Execution before it asks for the balance
AUTH_WAIT == 2

\* ------------------------------------------------------------ bounds

\* the clock starts StartNow minutes after a UTC midnight and runs MaxElapsed minutes
StartNow == 0
MaxElapsed == 5
\* contracts the broker opens in one run
MaxContracts == 2
\* entry attempts in progress at once (cap checks pending, proposals and buys unanswered)
MaxAttempts == 2

MaxNow == StartNow + MaxElapsed

\* calls made through Deriv.send in one run
MaxCalls == 3
\* seconds the clock of the link models runs
MaxSec == 8
\* sockets ConnectionManager creates in one run
MaxSockets == 5
\* minutes the clock of the multi-timeframe bot runs
MaxSmcNow == 2880
\* epoch of the forming candle of a history frame, in candles
BaseEpoch == 300
\* candles that open after the history frame
MaxNewCandles == 3
\* candles that open after the history frame of a timeframe
MaxMdCandles == 1
\* recordTradeEntry calls pending at once when frames are redelivered
MaxPending == 2
\* trade_closed events handled for registered contracts when frames are
\* redelivered
MaxClosings == 4

\* ------------------------------------------------------------ inputs

Prices == {70, 111, 152}
\* the ticks that can follow a tick of price q: the price climbs one level in
\* a spike or falls back to the lowest level
NextPrices(q) ==
  IF q = Null THEN {70}
  ELSE {p \in Prices : p = 70 \/ p - q = 41} \ {q}
BuyPrices == {100}
SoldFor == {70, 180}
ClockSteps == {5}
\* candles in the book when calculateSMAs runs and emits
CandleCounts == {200, 201}
\* averages of the closed candles, before the length of the book decides
\* which of them exist
SmaValues ==
  { [sma200 |-> 130, sma100 |-> 130, sma50 |-> 130, sma25 |-> 120],
    [sma200 |-> 130, sma100 |-> 130, sma50 |-> 130, sma25 |-> 140] }
Timeframes == {"H1", "M15", "M5"}
\* lengths of the history a timeframe's candles frame carries
MdHistorySizes == {299, 300}
\* account balances the broker reports
Balances == {955, 960, 1000}
SmcClockSteps == {360}
\* lengths of the history a candles frame carries (count: 300 is asked for)
HistorySizes == {199, 200, 201, 300}
\* closes of candles; multiples of 200 keep every average a whole number
Closes == {200, 400}
\* error codes of frames that reach the error branch of Execution.handleMessage
StreamErrorCodes == {"RateLimit", "InsufficientBalance"}
ReplyErrorCodes == {"RateLimit", "ContractBuyValidationError"}

\* prices fed to the train detector alone: deltas of 4.0, 4.1 and 4.2 occur
TrainPrices == {70, 110, 111, 151, 152}

ContractIds == 1..MaxContracts
\* contracts the broker opens for the backend strategy in one run
MaxVolContracts == 2
\* executeTrade calls of the backend strategy in progress at once
MaxVolAttempts == 2
\* recordTradeExit calls of the backend strategy in progress at once
MaxVolExits == 2
\* pause timers of the backend strategy pending at once
MaxPauseTimers == 1
\* the latest instant of the runs that cross midnight
MaxDayNow == 1440
Dates == (StartNow \div MinutesPerDay)..(MaxDayNow \div MinutesPerDay)

VARIABLES
  now,            \* Date.now(), in minutes
  running,        \* the process has not exited
  \* StrategyEngine
  currentPrice, previousPrice, smas, prevSmas, marketState,
  activeTrades, cooldownUntil, isTrading,
  \* RiskGuardian
  tickHistory, isPaused, pauseUntil,
  \* Execution
  openContracts,
  \* DailyStat collection: one document per date at most
  dailyStats,
  \* suspended async functions
  capChecks,      \* executeTrade calls awaiting checkDailyCap
  exits,          \* recordTradeExit calls
  entries,        \* recordTradeEntry calls awaiting Trade.create
  \* Trade collection: one document per contract_id at most (unique index)
  tradeDocs,
  \* contracts the broker has reported sold in a proposal_open_contract update
  soldReports,
  \* MarketData of the SMA engine: the candle array, its smas, and the events
  \* the last frame made it emit
  candles, mdSmas, emitted,
  \* the multi-timeframe bot: MarketData.candles, the engine's
  \* state.execution.activeTrade and accountBalance, and RiskGuardian's
  \* drawdown state
  books, activeTrade, accountBalance, highestBalance, killswitchUntil,
  \* the backend Volatility100Strategy: the length of its tick buffer, its
  \* flags and balance, the pause timers set, its executeTrade and
  \* recordTradeEntry / recordTradeExit calls in progress, the Trade and
  \* DailyStat documents of the backend, and the broker's contracts
  buffer, isArmed, isTradeOpen, stratPaused, pauseTimers, currentContractId,
  stratBalance, volAttempts, volEntries, volExits, volTrades, volStat,
  volOpen, volSold, volNext,
  \* requests the broker has received and not answered
  propReq, buyReq, sellReq, nextContract,
  \* frames written to the socket by the last step
  sent,
  \* result of the last processTick call
  trainResult,
  \* clock of the link models, in seconds
  tSec,
  \* backend Deriv: the socket, the pending-call map, the req_id counter, and
  \* what has become of each call's promise
  dWs, pendingRequests, reqIdCounter, calls, dSendResult,
  \* ConnectionManager: the sockets it has created (the last one is this.ws),
  \* its fields, the reconnect timers set, and what the last send() did
  sockets, reconnectAttempts, isExplicitlyClosed, pingInterval, timers,
  sendResult, lastDelay, schedSinceOpen, closedByHost,
  \* Execution and MarketData on the link: flags, the 2 s timers of the open
  \* listener, the subscriptions asked for on each socket, ticks delivered
  isAuthorized, balanceSubscribed, authTimers, subscribed, tickSeen

engineVars == <<currentPrice, previousPrice, smas, prevSmas, marketState,
                activeTrades, cooldownUntil, isTrading>>
riskVars == <<tickHistory, isPaused, pauseUntil, trainResult>>
dbVars == <<dailyStats, capChecks, exits>>
ledgerVars == <<entries, tradeDocs>>
brokerVars == <<soldReports>>
bookVars == <<candles, mdSmas, emitted>>
smcVars == <<books, activeTrade, accountBalance, highestBalance,
             killswitchUntil>>
volVars == <<buffer, isArmed, isTradeOpen, stratPaused, pauseTimers,
             currentContractId, stratBalance, volAttempts, volEntries,
             volExits, volTrades, volStat, volOpen, volSold, volNext>>
auxVars == <<brokerVars, bookVars, smcVars, volVars>>
wireVars == <<propReq, buyReq, sellReq, sent>>
botVars == <<now, running, engineVars, riskVars, openContracts, dbVars,
            ledgerVars, auxVars, wireVars, nextContract>>
derivVars == <<dWs, pendingRequests, reqIdCounter, calls, dSendResult>>
connVars == <<sockets, reconnectAttempts, isExplicitlyClosed, pingInterval,
             timers, sendResult, lastDelay, schedSinceOpen, closedByHost,
             isAuthorized, balanceSubscribed, authTimers, subscribed, tickSeen>>
linkVars == <<tSec, derivVars, connVars>>
vars == <<botVars, linkVars>>

\* ------------------------------------------------------------ helpers

Frame(t, c) == [type |-> t, id |-> c]
Count(frames, t) == Cardinality({i \in 1..Len(frames) : frames[i].type = t})
SellIds(frames) == {frames[i].id : i \in {j \in 1..Len(frames) : frames[j].type = "sell"}}

RECURSIVE SeqOfSet(_)
\* the elements of a set of contract ids in increasing order: the insertion
\* order of the Map, contract ids being handed out in increasing order
SeqOfSet(S) ==
  IF S = {} THEN <<>>
  ELSE LET m == CHOOSE x \in S : \A y \in S : x <= y
       IN <<m>> \o SeqOfSet(S \ {m})

Today == now \div MinutesPerDay

NoSmas == [sma200 |-> Null, sma100 |-> Null, sma50 |-> Null, sma25 |-> Null]
NoRow == [exists |-> FALSE, accumulated_profit |-> 0, trades_taken |-> 0,
          is_cap_reached |-> FALSE]

\* a contract_id the Trade collection has no document for
NoDoc == [exists |-> FALSE, status |-> "none", entry_price |-> Null,
          exit_time |-> Null, exit_price |-> Null, profit |-> Null]

\* a req_id Deriv.send has not handed out yet
NoCall == [state |-> "unused", sentAt |-> Null, resolutions |-> 0, by |-> Null]

\* a comparison of JavaScript numbers, false when a side is undefined
Gte(a, b) == a # Null /\ b # Null /\ a >= b
Lte(a, b) == a # Null /\ b # Null /\ a <= b
Gt(a, b) == a # Null /\ b # Null /\ a > b

\* ------------------------------------------------------------ RiskGuardian

\* tickHistory.push(currentPrice), then shift() when longer than maxTickHistory
PushTick(h, p) ==
  LET a == Append(h, p)
  IN IF Len(a) > maxTickHistory THEN Tail(a) ELSE a

\* a detector that looks at the most recent delta only: C7 tells it from the
\* detector of the source
TrainDetectedOneDelta(h) ==
  /\ ~(Len(h) < 3)
  /\ h[Len(h)] - h[Len(h) - 1] > TRAIN_DELTA

\* the two most recent deltas of the history both exceed 4.0
TrainDetected(h) ==
  /\ ~(Len(h) < 3)
  /\ h[Len(h)] - h[Len(h) - 1] > TRAIN_DELTA
  /\ h[Len(h) - 1] - h[Len(h) - 2] > TRAIN_DELTA

\* processTick: the new history, the return value and the pause it may set
ProcessTick(h, p, paused, until) ==
  LET h2 == PushTick(h, p)
  IN IF TrainDetected(h2)
     THEN [history |-> h2, train |-> TRUE, isPaused |-> TRUE,
           pauseUntil |-> now + PAUSE_DURATION]
     ELSE [history |-> h2, train |-> FALSE, isPaused |-> paused,
           pauseUntil |-> until]

\* the first branch of checkDailyCap: the train pause is in force
PauseActive(paused, until) == paused /\ now < until

\* the test of checkDailyCap on the document it has read
CapReached(row) == row.accumulated_profit >= DAILY_CAP

\* ------------------------------------------------------------ StrategyEngine

UpdateMarketState(ms, s, price) ==
  IF s.sma200 = Null THEN ms
  ELSE IF Gte(price, s.sma200) \/ Gte(price, s.sma100) \/ Gte(price, s.sma50)
       THEN "RESTRICTED"
       ELSE "PERMISSIVE"

\* a test that wants the thresholds exceeded, not reached
TpSlHitStrict(entry, price) ==
  LET diff == entry - price
  IN diff > TP \/ -diff > SL

TpSlHit(entry, price) ==
  LET diff == entry - price
  IN diff >= TP \/ -diff >= SL

\* checkOpenTrades: one sell per trade whose take profit or stop loss is hit
CheckOpenTrades(trades, price) ==
  LET hit == SeqOfSet({c \in DOMAIN trades : TpSlHit(trades[c].entry_price, price)})
  IN [i \in 1..Len(hit) |-> Frame("sell", hit[i])]

\* a closure that sells one of the active trades and leaves the others
CloseAllTradesOne(trades) ==
  LET ids == SeqOfSet(DOMAIN trades)
  IN IF Len(ids) = 0 THEN <<>> ELSE <<Frame("sell", ids[1])>>

\* closeAllTrades: one sell per active trade
CloseAllTrades(trades) ==
  LET ids == SeqOfSet(DOMAIN trades)
  IN [i \in 1..Len(ids) |-> Frame("sell", ids[i])]

\* the test of onTick that lets the entry logic run
CooldownOver(until) == ~(until - now > 0)

IsSpike(delta) == delta > SPIKE_DELTA

\* executeTrade up to its first suspension.  With the train pause in force
\* checkDailyCap returns at once and the continuation clears isTrading in the
\* same macrotask; otherwise the call is left awaiting DailyStat.findOne.
ExecuteTrade ==
  IF isTrading
  THEN [isTrading |-> isTrading, isPaused |-> isPaused,
        pauseUntil |-> pauseUntil, capChecks |-> capChecks]
  ELSE IF PauseActive(isPaused, pauseUntil)
  THEN [isTrading |-> FALSE, isPaused |-> isPaused,
        pauseUntil |-> pauseUntil, capChecks |-> capChecks]
  ELSE [isTrading |-> TRUE, isPaused |-> FALSE,
        pauseUntil |-> IF isPaused THEN Null ELSE pauseUntil,
        capChecks |-> Append(capChecks,
                        [date |-> Today, pc |-> "find",
                         capAtSignal |-> CapReached(dailyStats[Today])])]

\* an onTick that evaluates take profit and stop loss before it looks for a
\* train
TickResultTpSlFirst(p) ==
  LET pt == ProcessTick(tickHistory, p, isPaused, pauseUntil)
      tpsl == CheckOpenTrades(activeTrades, p)
      ms == UpdateMarketState(marketState, smas, p)
      keep == [marketState |-> marketState, isTrading |-> isTrading,
               isPaused |-> pt.isPaused, pauseUntil |-> pt.pauseUntil,
               capChecks |-> capChecks, frames |-> <<>>,
               history |-> pt.history, train |-> pt.train]
  IN IF pt.train
     THEN [keep EXCEPT !.frames = tpsl \o CloseAllTrades(activeTrades)]
     ELSE IF currentPrice = Null
     THEN [keep EXCEPT !.frames = tpsl]
     ELSE IF ~CooldownOver(cooldownUntil)
     THEN [keep EXCEPT !.frames = tpsl, !.marketState = ms]
     ELSE IF ms = "PERMISSIVE"
     THEN IF IsSpike(p - currentPrice)
          THEN LET e == ExecuteTrade
               IN [keep EXCEPT !.frames = tpsl, !.marketState = ms,
                               !.isTrading = e.isTrading,
                               !.isPaused = e.isPaused,
                               !.pauseUntil = e.pauseUntil,
                               !.capChecks = e.capChecks]
          ELSE [keep EXCEPT !.frames = tpsl, !.marketState = ms]
     ELSE IF DOMAIN activeTrades # {}
     THEN [keep EXCEPT !.frames = tpsl \o CloseAllTrades(activeTrades),
                       !.marketState = ms]
     ELSE [keep EXCEPT !.frames = tpsl, !.marketState = ms]

\* onTick for a tick of price p: what the handler leaves behind
TickResult(p) ==
  LET pt == ProcessTick(tickHistory, p, isPaused, pauseUntil)
      tpsl == CheckOpenTrades(activeTrades, p)
      ms == UpdateMarketState(marketState, smas, p)
      keep == [marketState |-> marketState, isTrading |-> isTrading,
               isPaused |-> pt.isPaused, pauseUntil |-> pt.pauseUntil,
               capChecks |-> capChecks, frames |-> <<>>,
               history |-> pt.history, train |-> pt.train]
  IN IF pt.train
     THEN [keep EXCEPT !.frames = CloseAllTrades(activeTrades)]
     ELSE IF currentPrice = Null
     THEN [keep EXCEPT !.frames = tpsl]
     ELSE IF ~CooldownOver(cooldownUntil)
     THEN [keep EXCEPT !.frames = tpsl, !.marketState = ms]
     ELSE IF ms = "PERMISSIVE"
     THEN IF IsSpike(p - currentPrice)
          THEN LET e == ExecuteTrade
               IN [keep EXCEPT !.frames = tpsl, !.marketState = ms,
                               !.isTrading = e.isTrading,
                               !.isPaused = e.isPaused,
                               !.pauseUntil = e.pauseUntil,
                               !.capChecks = e.capChecks]
          ELSE [keep EXCEPT !.frames = tpsl, !.marketState = ms]
     ELSE IF DOMAIN activeTrades # {}
     THEN [keep EXCEPT !.frames = tpsl \o CloseAllTrades(activeTrades),
                       !.marketState = ms]
     ELSE [keep EXCEPT !.frames = tpsl, !.marketState = ms]

\* the crossover test of onSMAs
Crossover(prev, cur) ==
  /\ prev.sma25 # Null
  /\ cur.sma25 # Null
  /\ \/ (Lte(prev.sma25, prev.sma50) /\ Gt(cur.sma25, cur.sma50))
     \/ (Lte(prev.sma25, prev.sma100) /\ Gt(cur.sma25, cur.sma100))

\* the rate_limit handler's new deadline
RateLimitCooldown(until) == now + RATE_LIMIT_COOLDOWN

\* ------------------------------------------------------------ MarketData

\* SMA.calculate over the closed candles yields no value for a period longer
\* than the series
SmaOf(period, nClosed, value) == IF nClosed >= period THEN value ELSE Null

\* calculateSMAs on a book of n candles whose closed candles average to v
CalculateSMAs(n, v) ==
  [sma200 |-> SmaOf(PERIOD_200, n - 1, v.sma200),
   sma100 |-> SmaOf(PERIOD_100, n - 1, v.sma100),
   sma50 |-> SmaOf(PERIOD_50, n - 1, v.sma50),
   sma25 |-> SmaOf(PERIOD_25, n - 1, v.sma25)]

\* ------------------------------------------------------------ socket

\* connection.send of the frames of a step, on an open link; dp, db and ds
\* are the requests the frame handled in this step has answered
Transmit(frames, dp, db, ds) ==
  /\ sent' = frames
  /\ propReq' = (propReq - dp) + Count(frames, "proposal")
  /\ buyReq' = (buyReq - db) + Count(frames, "buy")
  /\ sellReq' = (sellReq \ ds) \cup SellIds(frames)

Attempts == Len(capChecks) + propReq + buyReq

\* ------------------------------------------------------------ state

Init ==
  /\ now = StartNow
  /\ running = TRUE
  /\ currentPrice = Null
  /\ previousPrice = Null
  /\ smas = NoSmas
  /\ prevSmas = NoSmas   \* null in the source: read only by the crossover guard
  /\ marketState = "RESTRICTED"
  /\ activeTrades = <<>>
  /\ cooldownUntil = 0
  /\ isTrading = FALSE
  /\ tickHistory = <<>>
  /\ isPaused = FALSE
  /\ pauseUntil = Null
  /\ openContracts = <<>>
  /\ dailyStats = [d \in Dates |-> NoRow]
  /\ capChecks = <<>>
  /\ exits = {}
  /\ entries = <<>>
  /\ tradeDocs = [c \in ContractIds |-> NoDoc]
  /\ soldReports = {}
  /\ candles = <<>>
  /\ mdSmas = NoSmas
  /\ emitted = <<>>
  /\ books = [tf \in Timeframes |-> <<>>]
  /\ activeTrade = FALSE
  /\ accountBalance = Null
  /\ highestBalance = 0
  /\ killswitchUntil = 0
  /\ buffer = 0
  /\ isArmed = FALSE
  /\ isTradeOpen = FALSE
  /\ stratPaused = FALSE
  /\ pauseTimers = 0
  /\ currentContractId = Null
  /\ stratBalance = 0
  /\ volAttempts = <<>>
  /\ volEntries = {}
  /\ volExits = <<>>
  /\ volTrades = [c \in 1..MaxVolContracts |-> "none"]
  /\ volStat = [accumulated_profit |-> 0, trades_taken |-> 0]
  /\ volOpen = {}
  /\ volSold = {}
  /\ volNext = 1
  /\ propReq = 0
  /\ buyReq = 0
  /\ sellReq = {}
  /\ nextContract = 1
  /\ sent = <<>>
  /\ trainResult = FALSE
  /\ tSec = 0
  /\ dWs = "null"
  /\ pendingRequests = {}
  /\ reqIdCounter = 1
  /\ calls = [r \in 1..MaxCalls |-> NoCall]
  /\ dSendResult = "none"
  /\ sockets = <<>>
  /\ reconnectAttempts = 0
  /\ isExplicitlyClosed = FALSE
  /\ pingInterval = FALSE
  /\ timers = <<>>
  /\ sendResult = "none"
  /\ lastDelay = 0
  /\ schedSinceOpen = 0
  /\ closedByHost = FALSE
  /\ isAuthorized = FALSE
  /\ balanceSubscribed = FALSE
  /\ authTimers = <<>>
  /\ subscribed = <<>>
  /\ tickSeen = {}

\* ------------------------------------------------------------ inbound frames

\* a tick frame: MarketData emits tick, StrategyEngine.onTick runs
OnTick(p) ==
  LET r == TickResult(p)
  IN /\ running
     /\ Len(r.capChecks) + propReq + buyReq <= MaxAttempts
     /\ previousPrice' = currentPrice
     /\ currentPrice' = p
     /\ tickHistory' = r.history
     /\ trainResult' = r.train
     /\ isPaused' = r.isPaused
     /\ pauseUntil' = r.pauseUntil
     /\ marketState' = r.marketState
     /\ isTrading' = r.isTrading
     /\ capChecks' = r.capChecks
     /\ Transmit(r.frames, 0, 0, {})
     /\ UNCHANGED <<linkVars, auxVars, ledgerVars, now, running, smas, prevSmas, activeTrades, cooldownUntil,
                    openContracts, dailyStats, exits, nextContract>>

\* a candles frame or an ohlc frame that starts a candle: calculateSMAs emits
\* smas, StrategyEngine.onSMAs runs
OnSMAs(n, v) ==
  LET s == CalculateSMAs(n, v)
      cross == Crossover(prevSmas, s)
  IN /\ running
     /\ ~(n < MIN_CANDLES)
     /\ smas' = s
     /\ prevSmas' = s
     /\ cooldownUntil' = IF cross THEN now + CROSSOVER_COOLDOWN ELSE cooldownUntil
     /\ Transmit(IF cross THEN CloseAllTrades(activeTrades) ELSE <<>>, 0, 0, {})
     /\ UNCHANGED <<linkVars, auxVars, ledgerVars, now, running, currentPrice, previousPrice, marketState,
                    activeTrades, isTrading, riskVars, openContracts, dbVars,
                    nextContract>>

\* the broker answers a proposal request: handleProposal sends the buy
ProposalReply ==
  /\ running
  /\ propReq > 0
  /\ Transmit(<<Frame("buy", 0)>>, 1, 0, {})
  /\ UNCHANGED <<linkVars, auxVars, ledgerVars, now, running, engineVars, riskVars, openContracts, dbVars,
                 nextContract>>

\* the broker refuses a proposal request: a frame of msg_type proposal that
\* carries error and no proposal object; handleMessage returns in the
\* proposal branch, whatever the code
ProposalError(code) ==
  /\ running
  /\ propReq > 0
  /\ Transmit(<<>>, 1, 0, {})
  /\ UNCHANGED <<linkVars, auxVars, ledgerVars, now, running, engineVars, riskVars, openContracts, dbVars,
                 nextContract>>

\* the recordTradeEntry call the trade_opened handler starts
EntryCall(c, bp) == [contract_id |-> c, entry_price |-> bp]

\* a handler that takes a trade only while an entry attempt is in progress
TradeOpenedIfTrading(trades, c, bp) ==
  [isTrading |-> FALSE,
   activeTrades |-> IF isTrading
                    THEN [k \in DOMAIN trades \cup {c} |->
                            IF k = c THEN [entry_price |-> bp] ELSE trades[k]]
                    ELSE trades]

\* what the trade_opened handler leaves in activeTrades and isTrading
TradeOpened(trades, c, bp) ==
  [isTrading |-> FALSE,
   activeTrades |-> [k \in DOMAIN trades \cup {c} |->
                       IF k = c THEN [entry_price |-> bp] ELSE trades[k]]]

\* the broker confirms a buy with a new contract: handleBuy, then the
\* trade_opened handler of the engine
BuyReply(bp) ==
  LET c == nextContract
      o == TradeOpened(activeTrades, c, bp)
  IN /\ running
     /\ buyReq > 0
     /\ c <= MaxContracts
     /\ nextContract' = c + 1
     /\ openContracts' = [k \in DOMAIN openContracts \cup {c} |->
                            IF k = c THEN [buyPrice |-> bp] ELSE openContracts[k]]
     /\ isTrading' = o.isTrading
     /\ activeTrades' = o.activeTrades
     /\ entries' = Append(entries, EntryCall(c, bp))
     /\ Transmit(<<>>, 0, 1, {})
     /\ UNCHANGED <<linkVars, auxVars, tradeDocs, now, running, currentPrice, previousPrice, smas, prevSmas,
                    marketState, cooldownUntil, riskVars, dbVars>>

\* the broker refuses a buy: msg_type buy with error and no buy object;
\* handleMessage returns in the buy branch
BuyError(code) ==
  /\ running
  /\ buyReq > 0
  /\ Transmit(<<>>, 0, 1, {})
  /\ UNCHANGED <<linkVars, auxVars, ledgerVars, now, running, engineVars, riskVars, openContracts, dbVars,
                 nextContract>>

\* handleTradeClosed: the recordTradeExit call it starts, if the contract is active
\* a handler that records an exit whether or not it knows the contract
TradeClosedUnchecked(trades, c, soldFor) ==
  [activeTrades |-> [k \in DOMAIN trades \ {c} |-> trades[k]],
   exits |-> {[contract_id |-> c, exit_price |-> soldFor,
               profit |-> IF c \in DOMAIN trades
                          THEN soldFor - trades[c].entry_price ELSE soldFor,
               pc |-> "trade", date |-> Null]}]

TradeClosed(trades, c, soldFor) ==
  IF c \in DOMAIN trades
  THEN [activeTrades |-> [k \in DOMAIN trades \ {c} |-> trades[k]],
        exits |-> {[contract_id |-> c, exit_price |-> soldFor,
                    profit |-> soldFor - trades[c].entry_price,
                    pc |-> "trade", date |-> Null]}]
  ELSE [activeTrades |-> trades, exits |-> {}]

\* the broker confirms a sell: handleSell, then handleTradeClosed
SellReply(c, soldFor) ==
  LET t == TradeClosed(activeTrades, c, soldFor)
  IN /\ running
     /\ c \in sellReq
     /\ openContracts' = [k \in DOMAIN openContracts \ {c} |-> openContracts[k]]
     /\ activeTrades' = t.activeTrades
     /\ exits' = exits \cup t.exits
     /\ Transmit(<<>>, 0, 0, {c})
     /\ UNCHANGED <<linkVars, auxVars, ledgerVars, now, running, currentPrice, previousPrice, smas, prevSmas,
                    marketState, cooldownUntil, isTrading, riskVars, dailyStats,
                    capChecks, nextContract>>

\* the broker refuses a sell: msg_type sell with error and no sell object
SellError(c) ==
  /\ running
  /\ c \in sellReq
  /\ Transmit(<<>>, 0, 0, {c})
  /\ UNCHANGED <<linkVars, auxVars, ledgerVars, now, running, engineVars, riskVars, openContracts, dbVars,
                 nextContract>>

\* an error frame of another msg_type (a stream or subscription error) whose
\* code is one Execution handles: rate_limit or error is emitted
StreamError(code) ==
  /\ running
  /\ isTrading' = FALSE
  /\ cooldownUntil' = IF code = "RateLimit"
                      THEN RateLimitCooldown(cooldownUntil)
                      ELSE cooldownUntil
  /\ Transmit(<<>>, 0, 0, {})
  /\ UNCHANGED <<linkVars, auxVars, ledgerVars, now, running, currentPrice, previousPrice, smas, prevSmas,
                 marketState, activeTrades, riskVars, openContracts, dbVars,
                 nextContract>>

\* ------------------------------------------------------------ database completions

RemoveAt(q, i) == SubSeq(q, 1, i - 1) \o SubSeq(q, i + 1, Len(q))

\* checkDailyCap once it holds the document, and executeTrade after it
CapDecide(i, row) ==
  IF CapReached(row)
  THEN IF ~row.is_cap_reached
       THEN /\ capChecks' = [capChecks EXCEPT ![i].pc = "save"]
            /\ Transmit(<<>>, 0, 0, {})
            /\ UNCHANGED isTrading
       ELSE /\ capChecks' = RemoveAt(capChecks, i)
            /\ isTrading' = FALSE
            /\ Transmit(<<>>, 0, 0, {})
  ELSE /\ capChecks' = RemoveAt(capChecks, i)
       /\ Transmit(<<Frame("proposal", 0)>>, 0, 0, {})
       /\ UNCHANGED isTrading

\* DailyStat.findOne completes
CapFind(i) ==
  LET c == capChecks[i]
      row == dailyStats[c.date]
  IN /\ running
     /\ c.pc = "find"
     /\ IF ~row.exists
        THEN /\ capChecks' = [capChecks EXCEPT ![i].pc = "create"]
             /\ Transmit(<<>>, 0, 0, {})
             /\ UNCHANGED isTrading
        ELSE CapDecide(i, row)
     /\ UNCHANGED <<linkVars, auxVars, ledgerVars, now, running, currentPrice, previousPrice, smas, prevSmas,
                    marketState, activeTrades, cooldownUntil, riskVars,
                    openContracts, dailyStats, exits, nextContract>>

\* DailyStat.create completes: with the new document, or with a duplicate key
\* error when the date has a document by now; the rejection is handled by
\* nobody and the unhandledRejection handler exits the process
CapCreate(i) ==
  LET c == capChecks[i]
      row == dailyStats[c.date]
      fresh == [NoRow EXCEPT !.exists = TRUE]
  IN /\ running
     /\ c.pc = "create"
     /\ IF row.exists
        THEN /\ running' = FALSE
             /\ Transmit(<<>>, 0, 0, {})
             /\ UNCHANGED <<capChecks, isTrading, dailyStats>>
        ELSE /\ dailyStats' = [dailyStats EXCEPT ![c.date] = fresh]
             /\ CapDecide(i, fresh)
             /\ UNCHANGED running
     /\ UNCHANGED <<linkVars, auxVars, ledgerVars, now, currentPrice, previousPrice, smas, prevSmas,
                    marketState, activeTrades, cooldownUntil, riskVars,
                    openContracts, exits, nextContract>>

\* dailyStat.save completes: the flag is stored, checkDailyCap returns true
CapSave(i) ==
  LET c == capChecks[i]
  IN /\ running
     /\ c.pc = "save"
     /\ dailyStats' = [dailyStats EXCEPT ![c.date].is_cap_reached = TRUE]
     /\ capChecks' = RemoveAt(capChecks, i)
     /\ isTrading' = FALSE
     /\ Transmit(<<>>, 0, 0, {})
     /\ UNCHANGED <<linkVars, auxVars, ledgerVars, now, running, currentPrice, previousPrice, smas, prevSmas,
                    marketState, activeTrades, cooldownUntil, riskVars,
                    openContracts, exits, nextContract>>

\* Trade.findOneAndUpdate by contract_id without upsert: the document it
\* leaves, none when there is none
ClosedDoc(doc, e, t) ==
  IF doc.exists
  THEN [doc EXCEPT !.status = "CLOSED", !.exit_time = t,
                   !.exit_price = e.exit_price, !.profit = e.profit]
  ELSE doc

\* recordTradeExit: Trade.findOneAndUpdate completes, updateDailyStats is
\* called, with a document found or not, and takes today's date
ExitTrade(e) ==
  /\ running
  /\ e.pc = "trade"
  /\ tradeDocs' = [tradeDocs EXCEPT
                     ![e.contract_id] = ClosedDoc(tradeDocs[e.contract_id], e, now)]
  /\ exits' = (exits \ {e}) \cup {[e EXCEPT !.pc = "inc", !.date = Today]}
  /\ Transmit(<<>>, 0, 0, {})
  /\ UNCHANGED <<linkVars, auxVars, entries, now, running, engineVars, riskVars, openContracts, dailyStats,
                 capChecks, nextContract>>

\* an update that adds the profit and leaves trades_taken as it was
IncRowNoCount(row, profit) ==
  [exists |-> TRUE,
   accumulated_profit |-> row.accumulated_profit + profit,
   trades_taken |-> row.trades_taken,
   is_cap_reached |-> row.is_cap_reached]

\* the document after findOneAndUpdate with $inc and upsert
IncRow(row, profit) ==
  [exists |-> TRUE,
   accumulated_profit |-> row.accumulated_profit + profit,
   trades_taken |-> row.trades_taken + 1,
   is_cap_reached |-> row.is_cap_reached]

\* updateDailyStats: the upsert completes
ExitInc(e) ==
  LET row == IncRow(dailyStats[e.date], e.profit)
  IN /\ running
     /\ e.pc = "inc"
     /\ dailyStats' = [dailyStats EXCEPT ![e.date] = row]
     /\ exits' = IF CapReached(row)
                 THEN (exits \ {e}) \cup {[e EXCEPT !.pc = "flag"]}
                 ELSE exits \ {e}
     /\ Transmit(<<>>, 0, 0, {})
     /\ UNCHANGED <<linkVars, auxVars, ledgerVars, now, running, engineVars, riskVars, openContracts,
                    capChecks, nextContract>>

\* updateDailyStats: the update that sets is_cap_reached completes
ExitFlag(e) ==
  /\ running
  /\ e.pc = "flag"
  /\ dailyStats' = [dailyStats EXCEPT ![e.date].is_cap_reached = TRUE]
  /\ exits' = exits \ {e}
  /\ Transmit(<<>>, 0, 0, {})
  /\ UNCHANGED <<linkVars, auxVars, ledgerVars, now, running, engineVars, riskVars, openContracts,
                 capChecks, nextContract>>

\* ------------------------------------------------------------ clock

Advance(d) ==
  /\ running
  /\ now + d <= MaxNow
  /\ now' = now + d
  /\ Transmit(<<>>, 0, 0, {})
  /\ UNCHANGED <<linkVars, auxVars, ledgerVars, running, engineVars, riskVars, openContracts, dbVars,
                 nextContract>>

\* Trade.create completes: with the new document, or with the duplicate key
\* error of the unique index on contract_id, which recordTradeEntry catches
EntryCreate(i) ==
  LET c == entries[i].contract_id
  IN /\ running
     /\ entries' = RemoveAt(entries, i)
     /\ tradeDocs' = IF tradeDocs[c].exists
                      THEN tradeDocs
                      ELSE [tradeDocs EXCEPT
                              ![c] = [NoDoc EXCEPT !.exists = TRUE,
                                                   !.status = "OPEN",
                                                   !.entry_price = entries[i].entry_price]]
     /\ Transmit(<<>>, 0, 0, {})
     /\ UNCHANGED <<linkVars, auxVars, now, running, engineVars, riskVars, openContracts,
                    dbVars, nextContract>>

\* ------------------------------------------------------------ specification

Next ==
  \/ \E p \in NextPrices(currentPrice) : OnTick(p)
  \/ \E n \in CandleCounts, v \in SmaValues : OnSMAs(n, v)
  \/ ProposalReply
  \/ \E code \in ReplyErrorCodes : ProposalError(code)
  \/ \E bp \in BuyPrices : BuyReply(bp)
  \/ \E code \in ReplyErrorCodes : BuyError(code)
  \/ \E c \in ContractIds, sf \in SoldFor : SellReply(c, sf)
  \/ \E c \in ContractIds : SellError(c)
  \/ \E i \in 1..Len(capChecks) : CapFind(i)
  \/ \E i \in 1..Len(capChecks) : CapCreate(i)
  \/ \E i \in 1..Len(capChecks) : CapSave(i)
  \/ \E e \in exits : ExitTrade(e)
  \/ \E e \in exits : ExitInc(e)
  \/ \E e \in exits : ExitFlag(e)
  \/ \E d \in ClockSteps : Advance(d)

\* the bot on its frames, database completions and clock; the completions of
\* Trade.create, which no step here reads, are followed in ReplaySpec
Spec == Init /\ [][Next]_vars

\* the broker also sends error frames outside the replies and confirms no sell
NextErr ==
  \/ \E p \in NextPrices(currentPrice) : OnTick(p)
  \/ \E n \in CandleCounts, v \in SmaValues : OnSMAs(n, v)
  \/ ProposalReply
  \/ \E code \in ReplyErrorCodes : ProposalError(code)
  \/ \E bp \in BuyPrices : BuyReply(bp)
  \/ \E code \in ReplyErrorCodes : BuyError(code)
  \/ \E code \in StreamErrorCodes : StreamError(code)
  \/ \E i \in 1..Len(capChecks) : CapFind(i)
  \/ \E i \in 1..Len(capChecks) : CapCreate(i)
  \/ \E d \in ClockSteps : Advance(d)

ErrSpec == Init /\ [][NextErr]_vars

\* riskGuardian.processTick called on its own, for any series of prices
TrainTick(p) ==
  LET pt == ProcessTick(tickHistory, p, isPaused, pauseUntil)
  IN /\ tickHistory' = pt.history
     /\ trainResult' = pt.train
     /\ isPaused' = pt.isPaused
     /\ pauseUntil' = pt.pauseUntil
     /\ UNCHANGED <<linkVars, auxVars, ledgerVars, now, running, engineVars, openContracts, dbVars, wireVars,
                    nextContract>>

NextTrain == \E p \in TrainPrices : TrainTick(p)

TrainSpec == Init /\ [][NextTrain]_vars

\* ------------------------------------------------------------ properties

ProposalSent == Count(sent, "proposal") > 0
AnyTick == \E p \in Prices : OnTick(p)
AnySMAs == \E n \in CandleCounts, v \in SmaValues : OnSMAs(n, v)
Max(a, b) == IF a >= b THEN a ELSE b

\* C1: the engine never has more than one contract registered as open.
C1_AtMostOneActiveTrade == Cardinality(DOMAIN activeTrades) <= 1

\* C2: at most one entry attempt has a proposal or its buy with the broker:
\* no second proposal is sent before the first attempt has ended in
\* trade_opened or in an error reply.
C2_OneProposalInFlight == propReq + buyReq <= 1

\* C3: an entry attempt ends when the broker answers its proposal or its buy
\* with an error: once that reply is handled isTrading is clear.
C3_ErrorReplyEndsAttempt ==
  [][((\E code \in ReplyErrorCodes : ProposalError(code))
       \/ (\E code \in ReplyErrorCodes : BuyError(code)))
     => ~isTrading']_vars

\* C4: in every state marketState is PERMISSIVE exactly when sma50, sma100
\* and sma200 are defined and the current price is strictly below all three.
C4_PermissiveIffBelowSmas ==
  (marketState = "PERMISSIVE")
    <=> (/\ currentPrice # Null
         /\ smas.sma50 # Null /\ smas.sma100 # Null /\ smas.sma200 # Null
         /\ currentPrice < smas.sma50
         /\ currentPrice < smas.sma100
         /\ currentPrice < smas.sma200)

\* C5: an entry signal that fired while today's DailyStat had accumulated
\* profit of 8.00 or more sends no proposal, and isTrading is false once its
\* cap check has completed.
C5_NoProposalAtCap ==
  [][\A i \in 1..Len(capChecks) :
       (capChecks[i].capAtSignal /\ (CapFind(i) \/ CapCreate(i) \/ CapSave(i)))
         => (/\ ~ProposalSent'
             /\ (Len(capChecks') < Len(capChecks) => ~isTrading'))]_vars

\* C6: no proposal is sent on a date whose DailyStat has is_cap_reached set.
C6_NoProposalOnceCapFlagged ==
  ProposalSent => ~dailyStats[Today].is_cap_reached

\* C7: processTick returns true exactly when the history, the new price
\* appended, holds at least 3 prices of which the last two rises both exceed
\* 4.0; the history never holds more than 5 prices.
C7_TrainIffTwoRises ==
  LET n == Len(tickHistory)
  IN /\ n <= 5
     /\ trainResult <=> (/\ n >= 3
                         /\ tickHistory[n] - tickHistory[n - 1] > 40
                         /\ tickHistory[n - 1] - tickHistory[n - 2] > 40)

\* C7 witness: processTick has returned true on a history at its full length
C7_Witness == trainResult /\ Len(tickHistory) = 5

\* C8: a train tick sells every active contract and starts a pause of 15
\* minutes; a cap check asked for during the pause starts no lookup; no
\* proposal is sent while the pause is in force.
C8_TrainPausesEntries ==
  /\ [][(AnyTick /\ trainResult')
          => (/\ \A c \in DOMAIN activeTrades : c \in SellIds(sent')
              /\ isPaused' /\ pauseUntil' = now + PAUSE_DURATION)]_vars
  /\ [][(AnyTick /\ PauseActive(isPaused, pauseUntil))
          => Len(capChecks') <= Len(capChecks)]_vars
  /\ [](ProposalSent => ~PauseActive(isPaused, pauseUntil))

\* the crossover of C9, on the averages before and after an update
CrossShown(prev, cur) ==
  /\ prev.sma25 # Null /\ prev.sma50 # Null /\ prev.sma100 # Null
  /\ cur.sma25 # Null /\ cur.sma50 # Null /\ cur.sma100 # Null
  /\ \/ (prev.sma25 <= prev.sma50 /\ cur.sma25 > cur.sma50)
     \/ (prev.sma25 <= prev.sma100 /\ cur.sma25 > cur.sma100)

\* C9: an SMA update that shows SMA25 crossing above SMA50 or SMA100 sells
\* every active trade and sets cooldownUntil to now + 5 minutes; no proposal
\* is sent before cooldownUntil.
C9_CrossoverCooldown ==
  /\ [][(AnySMAs /\ CrossShown(prevSmas, smas'))
          => (/\ \A c \in DOMAIN activeTrades : c \in SellIds(sent')
              /\ cooldownUntil' = now + CROSSOVER_COOLDOWN)]_vars
  /\ [](ProposalSent => now >= cooldownUntil)

\* C10: a rate_limit event sets cooldownUntil to the later of its old value
\* and now + 60 s.
C10_RateLimitKeepsLaterDeadline ==
  [][StreamError("RateLimit")
       => cooldownUntil' = Max(cooldownUntil, now + RATE_LIMIT_COOLDOWN)]_vars

\* C11: every inbound frame whose error code is RateLimit, the error reply to
\* a proposal or to a buy included, has Execution emit rate_limit: once it is
\* handled isTrading is clear and the cooldown runs for 60 s at least.
C11_RateLimitAlwaysReported ==
  [][(ProposalError("RateLimit") \/ BuyError("RateLimit")
       \/ StreamError("RateLimit"))
     => (~isTrading' /\ cooldownUntil' >= now + RATE_LIMIT_COOLDOWN)]_vars

\* ------------------------------------------------------------ backend Deriv

\* _handleMessage on a frame whose req_id is f (0 for a frame without one):
\* the entry of the pending-call map it resolves, if any
Resolves(pending, f) == IF f # 0 /\ f \in pending THEN {f} ELSE {}

\* a correlator that resolves a call and keeps its entry in the map
AfterMessageKeep(pending, f) == pending

\* _handleMessage: the pending-call map it leaves
AfterMessage(pending, f) == pending \ Resolves(pending, f)

\* Deriv.connect: new WebSocket
DerivConnect ==
  /\ dWs = "null"
  /\ dWs' = "connecting"
  /\ UNCHANGED <<botVars, tSec, connVars, pendingRequests, reqIdCounter, calls,
                 dSendResult>>

\* the socket opens
DerivOpen ==
  /\ dWs = "connecting"
  /\ dWs' = "open"
  /\ UNCHANGED <<botVars, tSec, connVars, pendingRequests, reqIdCounter, calls,
                 dSendResult>>

\* the socket closes: the close handler stops the heartbeat and calls
\* onDisconnect; the pending-call map is not touched
DerivClose ==
  /\ dWs \in {"connecting", "open"}
  /\ dWs' = "closed"
  /\ UNCHANGED <<botVars, tSec, connVars, pendingRequests, reqIdCounter, calls,
                 dSendResult>>

\* Deriv.send(payload)
DerivSend ==
  IF dWs # "open"
  THEN /\ dSendResult' = "rejected"
       /\ UNCHANGED <<botVars, tSec, connVars, dWs, pendingRequests,
                      reqIdCounter, calls>>
  ELSE /\ reqIdCounter <= MaxCalls
       /\ reqIdCounter' = reqIdCounter + 1
       /\ pendingRequests' = pendingRequests \cup {reqIdCounter}
       /\ calls' = [calls EXCEPT ![reqIdCounter] =
                      [NoCall EXCEPT !.state = "pending", !.sentAt = tSec]]
       /\ dSendResult' = "pending"
       /\ UNCHANGED <<botVars, tSec, connVars, dWs>>

\* the callback of ws.send reports an error for call r
DerivSendFailed(r) ==
  /\ r \in pendingRequests
  /\ pendingRequests' = pendingRequests \ {r}
  /\ calls' = [calls EXCEPT ![r].state = "rejected"]
  /\ UNCHANGED <<botVars, tSec, connVars, dWs, reqIdCounter, dSendResult>>

\* an inbound frame with req_id f, 0 for a stream frame that carries none
DerivFrame(f) ==
  LET hit == Resolves(pendingRequests, f)
  IN /\ dWs = "open"
     /\ pendingRequests' = AfterMessage(pendingRequests, f)
     /\ calls' = [r \in DOMAIN calls |->
                    IF r \in hit
                    THEN [calls[r] EXCEPT !.state = "resolved",
                                          !.resolutions = @ + 1, !.by = f]
                    ELSE calls[r]]
     /\ UNCHANGED <<botVars, tSec, connVars, dWs, reqIdCounter, dSendResult>>

\* a second passes
DerivAdvance ==
  /\ tSec < MaxSec
  /\ tSec' = tSec + 1
  /\ UNCHANGED <<botVars, connVars, derivVars>>

NextDeriv ==
  \/ DerivConnect
  \/ DerivOpen
  \/ DerivClose
  \/ DerivSend
  \/ \E r \in 1..MaxCalls : DerivSendFailed(r)
  \/ \E f \in 0..MaxCalls : DerivFrame(f)
  \/ DerivAdvance

DerivSpec == Init /\ [][NextDeriv]_vars

\* C12: in the correlator every call is resolved once at most and only by a
\* frame that carries its req_id; the frame that carries the req_id of a
\* pending call resolves it and frees its entry; a frame without req_id
\* resolves nothing.
C12_EachCallResolvedOnce ==
  /\ [](\A r \in 1..MaxCalls :
          /\ calls[r].resolutions <= 1
          /\ calls[r].state = "resolved" => (calls[r].by = r /\ calls[r].by # 0))
  /\ [][\A f \in 1..MaxCalls :
          (DerivFrame(f) /\ f \in pendingRequests)
            => (/\ calls'[f].state = "resolved"
                /\ calls'[f].resolutions = 1
                /\ f \notin pendingRequests')]_vars
  /\ [][DerivFrame(0) => (calls' = calls /\ pendingRequests' = pendingRequests)]_vars

\* C12 witness: of two concurrent calls the later one is resolved first
C12_Witness == calls[2].state = "resolved" /\ calls[1].state = "pending"

\* C13: a call still pending at its deadline is failed with Timeout and its
\* entry removed: no call is pending past its deadline.
C13_PendingCallTimesOut ==
  \A r \in 1..MaxCalls :
    (r \in pendingRequests \/ calls[r].state = "pending")
      => tSec <= calls[r].sentAt + CALL_DEADLINE

\* C14: once the socket has closed every call that was pending has been
\* failed with LinkLost and the pending-call map is empty.
C14_CloseFailsPendingCalls ==
  dWs = "closed"
    => (pendingRequests = {} /\ \A r \in 1..MaxCalls : calls[r].state # "pending")

\* ------------------------------------------------------------ ConnectionManager

\* this.ws && this.ws.readyState === WebSocket.OPEN, on the sockets socks
LinkOpen(socks) == Len(socks) > 0 /\ socks[Len(socks)] = "open"

\* what ConnectionManager.send does with a frame: written to this.ws, or
\* logged and dropped; it returns nothing and throws nothing either way
SendOutcome(socks) == IF LinkOpen(socks) THEN "sent" ELSE "dropped"

\* the requests this.ws has received once send was called for each of reqs
Sent(socks, sub, reqs) ==
  IF LinkOpen(socks) THEN [sub EXCEPT ![Len(socks)] = @ \cup reqs] ELSE sub

\* a schedule without the 2 s step: C18 tells it from the source's
ReconnectDelayFlat(n) == IF n = 1 THEN 1 ELSE 5

\* the delay reconnect() picks for attempt n, in seconds
ReconnectDelay(n) == IF n = 1 THEN 1 ELSE IF n = 2 THEN 2 ELSE 5

\* connect(): the body shared by the host's call and the reconnect timer
Connect ==
  /\ Len(sockets) < MaxSockets
  /\ isExplicitlyClosed' = FALSE
  /\ sockets' = Append(sockets, "connecting")
  /\ subscribed' = Append(subscribed, {})

\* reconnect(): count the attempt and set the timer
Reconnect ==
  /\ reconnectAttempts' = reconnectAttempts + 1
  /\ timers' = Append(timers, tSec + ReconnectDelay(reconnectAttempts + 1))
  /\ lastDelay' = ReconnectDelay(reconnectAttempts + 1)
  /\ schedSinceOpen' = schedSinceOpen + 1

\* Execution.startBalanceMonitoring
StartBalanceMonitoring(socks) ==
  /\ balanceSubscribed' = TRUE
  /\ IF ~balanceSubscribed
     THEN /\ subscribed' = Sent(socks, subscribed, {"balance"})
          /\ sendResult' = SendOutcome(socks)
     ELSE UNCHANGED <<subscribed, sendResult>>

\* index.js: connection.connect(), once
HostConnect ==
  /\ running
  /\ sockets = <<>>
  /\ Connect
  /\ UNCHANGED <<botVars, tSec, derivVars, reconnectAttempts, pingInterval,
                 timers, sendResult, lastDelay, schedSinceOpen, closedByHost,
                 isAuthorized, balanceSubscribed, authTimers, tickSeen>>

\* socket i opens: the open handler of ConnectionManager, then the open
\* listeners of MarketData and Execution
SocketOpen(i) ==
  LET socks == [sockets EXCEPT ![i] = "open"]
  IN /\ running
     /\ sockets[i] = "connecting"
     /\ sockets' = socks
     /\ reconnectAttempts' = 0
     /\ schedSinceOpen' = 0
     /\ pingInterval' = TRUE
     /\ subscribed' = Sent(socks, subscribed, {"authorize", "ticks", "candles"})
     /\ sendResult' = SendOutcome(socks)
     /\ authTimers' = Append(authTimers, tSec + AUTH_WAIT)
     /\ UNCHANGED <<botVars, tSec, derivVars, isExplicitlyClosed, timers,
                    lastDelay, closedByHost, isAuthorized, balanceSubscribed,
                    tickSeen>>

\* the reply to authorize arrives on socket i: Execution starts the balance
\* subscription
AuthorizeReply(i) ==
  /\ running
  /\ sockets[i] = "open"
  /\ "authorize" \in subscribed[i]
  /\ isAuthorized' = TRUE
  /\ StartBalanceMonitoring(sockets)
  /\ UNCHANGED <<botVars, tSec, derivVars, sockets, reconnectAttempts,
                 isExplicitlyClosed, pingInterval, timers, lastDelay,
                 schedSinceOpen, closedByHost, authTimers, tickSeen>>

\* the 2 s timer of Execution's open listener fires
AuthTimer(k) ==
  /\ running
  /\ authTimers[k] <= tSec
  /\ authTimers' = RemoveAt(authTimers, k)
  /\ IF isAuthorized
     THEN StartBalanceMonitoring(sockets)
     ELSE UNCHANGED <<balanceSubscribed, subscribed, sendResult>>
  /\ UNCHANGED <<botVars, tSec, derivVars, sockets, reconnectAttempts,
                 isExplicitlyClosed, pingInterval, timers, lastDelay,
                 schedSinceOpen, closedByHost, isAuthorized, tickSeen>>

\* a tick of the stream asked for on socket i arrives and is emitted to the
\* strategy (what the strategy does with it is OnTick)
TickFrame(i) ==
  /\ running
  /\ sockets[i] = "open"
  /\ "ticks" \in subscribed[i]
  /\ tickSeen' = tickSeen \cup {i}
  /\ UNCHANGED <<botVars, tSec, derivVars, sockets, reconnectAttempts,
                 isExplicitlyClosed, pingInterval, timers, sendResult, lastDelay,
                 schedSinceOpen, closedByHost, isAuthorized, balanceSubscribed,
                 authTimers, subscribed>>

\* socket i closes: the close handler
SocketClosed(i) ==
  /\ running
  /\ sockets[i] \in {"connecting", "open", "closing"}
  /\ sockets' = [sockets EXCEPT ![i] = "closed"]
  /\ pingInterval' = FALSE
  /\ IF ~isExplicitlyClosed
     THEN Reconnect
     ELSE UNCHANGED <<reconnectAttempts, timers, lastDelay, schedSinceOpen>>
  /\ UNCHANGED <<botVars, tSec, derivVars, isExplicitlyClosed, sendResult,
                 closedByHost, isAuthorized, balanceSubscribed, authTimers,
                 subscribed, tickSeen>>

\* socket i reports an error: emit("error") finds no listener and throws, the
\* uncaughtException handler exits the process
SocketError(i) ==
  /\ running
  /\ sockets[i] \in {"connecting", "open", "closing"}
  /\ running' = FALSE
  /\ UNCHANGED <<now, engineVars, riskVars, openContracts, dbVars, ledgerVars,
                 auxVars, wireVars, nextContract, linkVars>>

\* a reconnect timer that is an interval: it fires and stays set
ReconnectInterval(k) ==
  /\ running
  /\ timers[k] <= tSec
  /\ timers' = [timers EXCEPT ![k] = tSec + lastDelay]
  /\ Connect
  /\ UNCHANGED <<botVars, tSec, derivVars, reconnectAttempts, pingInterval,
                 sendResult, lastDelay, schedSinceOpen, closedByHost,
                 isAuthorized, balanceSubscribed, authTimers, tickSeen>>

\* a reconnect timer fires: connect()
ReconnectTimer(k) ==
  /\ running
  /\ timers[k] <= tSec
  /\ timers' = RemoveAt(timers, k)
  /\ Connect
  /\ UNCHANGED <<botVars, tSec, derivVars, reconnectAttempts, pingInterval,
                 sendResult, lastDelay, schedSinceOpen, closedByHost,
                 isAuthorized, balanceSubscribed, authTimers, tickSeen>>

\* a module calls connection.send: a proposal, a buy or a sell
ClientSend ==
  /\ running
  /\ Len(sockets) > 0
  /\ sendResult' = SendOutcome(sockets)
  /\ UNCHANGED <<botVars, tSec, derivVars, sockets, reconnectAttempts,
                 isExplicitlyClosed, pingInterval, timers, lastDelay,
                 schedSinceOpen, closedByHost, isAuthorized, balanceSubscribed,
                 authTimers, subscribed, tickSeen>>

\* close() is called on the manager
HostClose ==
  /\ running
  /\ Len(sockets) > 0
  /\ ~closedByHost
  /\ closedByHost' = TRUE
  /\ isExplicitlyClosed' = TRUE
  /\ pingInterval' = FALSE
  /\ sockets' = [sockets EXCEPT ![Len(sockets)] =
                   IF @ \in {"connecting", "open"} THEN "closing" ELSE @]
  /\ UNCHANGED <<botVars, tSec, derivVars, reconnectAttempts, timers,
                 sendResult, lastDelay, schedSinceOpen, isAuthorized,
                 balanceSubscribed, authTimers, subscribed, tickSeen>>

\* a second passes; a timer that is due fires first
ConnAdvance ==
  /\ running
  /\ tSec < MaxSec
  /\ \A k \in 1..Len(timers) : timers[k] > tSec
  /\ \A k \in 1..Len(authTimers) : authTimers[k] > tSec
  /\ tSec' = tSec + 1
  /\ UNCHANGED <<botVars, derivVars, connVars>>

NextConn ==
  \/ HostConnect
  \/ \E i \in 1..Len(sockets) : SocketOpen(i)
  \/ \E i \in 1..Len(sockets) : AuthorizeReply(i)
  \/ \E k \in 1..Len(authTimers) : AuthTimer(k)
  \/ \E i \in 1..Len(sockets) : TickFrame(i)
  \/ \E i \in 1..Len(sockets) : SocketClosed(i)
  \/ \E i \in 1..Len(sockets) : SocketError(i)
  \/ \E k \in 1..Len(timers) : ReconnectTimer(k)
  \/ ClientSend
  \/ HostClose
  \/ ConnAdvance

ConnSpec == Init /\ [][NextConn]_vars

\* C15: a send attempted while the link is not open fails at once with an
\* error the caller sees and leaves nothing behind, in Deriv.send and in
\* ConnectionManager.send alike.
C15_SendWhileDownFails ==
  /\ [][(DerivSend /\ dWs # "open")
          => (dSendResult' = "rejected" /\ pendingRequests' = pendingRequests)]_vars
  /\ [][(ClientSend /\ ~LinkOpen(sockets))
          => (sendResult' = "NotConnected" /\ subscribed' = subscribed)]_vars

\* C16: when a tick reaches the strategy on a socket opened by a reconnect,
\* every subscription asked for on an earlier socket (ticks, candles,
\* balance) has been asked for again on this one.
C16_ResubscribedBeforeTick ==
  \A i \in tickSeen : \A j \in 1..(i - 1) :
    (subscribed[j] \ {"authorize"}) \subseteq subscribed[i]

\* C17: once close() has been called no socket is connecting or open.
C17_NoConnectAfterClose ==
  closedByHost => \A i \in 1..Len(sockets) : sockets[i] \notin {"connecting", "open"}

\* C18: the n-th reconnect scheduled since the last open (or since the
\* start) has delay 1 s, 2 s, 5 s, 5 s, ...: never more than 5 s, and 1 s
\* again after an open.
C18_BackoffSchedule ==
  /\ lastDelay <= 5
  /\ schedSinceOpen >= 1
       => lastDelay = (IF schedSinceOpen = 1 THEN 1
                       ELSE IF schedSinceOpen = 2 THEN 2 ELSE 5)

\* C18 witness: a fourth reconnect in a row is scheduled, 5 s ahead
C18_Witness == schedSinceOpen = 4 /\ lastDelay = 5 /\ Len(timers) > 0

\* ------------------------------------------------------------ daily statistics

\* the exit records whose $inc update has not been applied yet
ExitsNotCounted == {e \in exits : e.pc \in {"trade", "inc"}}

\* trades_taken summed over the documents of the days in S
RECURSIVE TradesTaken(_)
TradesTaken(S) ==
  IF S = {} THEN 0
  ELSE LET d == CHOOSE x \in S : TRUE
       IN dailyStats[d].trades_taken + TradesTaken(S \ {d})

\* contracts the engine has closed so far
ClosedTrades == (nextContract - 1) - Cardinality(DOMAIN activeTrades)

\* C19: a trade_closed event for a registered contract starts one
\* recordTradeExit carrying sell price minus entry price as profit; the update
\* of a recorded exit raises trades_taken of its day by exactly 1 and
\* accumulated_profit by exactly that profit; and at all times trades_taken
\* over all days plus the exits still to be counted is the number of trades
\* closed.
C19_ExitCountedOnce ==
  /\ [][\A c \in ContractIds, sf \in SoldFor :
          (SellReply(c, sf) /\ c \in DOMAIN activeTrades) =>
            /\ Cardinality(exits') = Cardinality(exits) + 1
            /\ \E e \in exits' \ exits :
                 /\ e.contract_id = c
                 /\ e.profit = sf - activeTrades[c].entry_price]_vars
  /\ [][\A e \in exits :
          ExitInc(e) =>
            /\ dailyStats'[e.date].trades_taken
                 = dailyStats[e.date].trades_taken + 1
            /\ dailyStats'[e.date].accumulated_profit
                 = dailyStats[e.date].accumulated_profit + e.profit
            /\ \A d \in Dates \ {e.date} : dailyStats'[d] = dailyStats[d]]_vars
  /\ [](TradesTaken(Dates) + Cardinality(ExitsNotCounted) = ClosedTrades)

\* two trades closed and counted, one at a gain and one at a loss
C19_Witness ==
  /\ dailyStats[Today].trades_taken = 2
  /\ dailyStats[Today].accumulated_profit = 50
  /\ exits = {}
  /\ ClosedTrades = 2

\* ------------------------------------------------------------ redelivered frames

\* the price the broker sold contract c for: every sell frame of c carries it
SoldPrice(c) == IF c = 1 THEN 180 ELSE 70

\* a buy frame for contract c, first or redelivered: handleMessage has no
\* check of what it answers; handleBuy, then the trade_opened handler
BuyFrame(c, bp) ==
  LET o == TradeOpened(activeTrades, c, bp)
  IN /\ running
     /\ Len(entries) < MaxPending
     /\ openContracts' = [k \in DOMAIN openContracts \cup {c} |->
                            IF k = c THEN [buyPrice |-> bp] ELSE openContracts[k]]
     /\ isTrading' = o.isTrading
     /\ activeTrades' = o.activeTrades
     /\ entries' = Append(entries, EntryCall(c, bp))
     /\ Transmit(<<>>, 0, 0, {})
     /\ UNCHANGED <<linkVars, auxVars, tradeDocs, now, running, currentPrice, previousPrice,
                    smas, prevSmas, marketState, cooldownUntil, riskVars, dbVars,
                    nextContract>>

\* a sell frame for contract c, first or redelivered, once the DailyStat
\* update of an earlier delivery has been applied: handleSell, then
\* handleTradeClosed
SellFrame(c) ==
  LET t == TradeClosed(activeTrades, c, SoldPrice(c))
  IN /\ running
     /\ \A e \in exits : e.contract_id # c \/ e.pc = "flag"
     /\ TradesTaken(Dates) + Cardinality(exits) < MaxClosings
     /\ openContracts' = [k \in DOMAIN openContracts \ {c} |-> openContracts[k]]
     /\ activeTrades' = t.activeTrades
     /\ exits' = exits \cup t.exits
     /\ Transmit(<<>>, 0, 0, {})
     /\ UNCHANGED <<linkVars, auxVars, ledgerVars, now, running, currentPrice, previousPrice,
                    smas, prevSmas, marketState, cooldownUntil, isTrading, riskVars,
                    dailyStats, capChecks, nextContract>>

NextReplay ==
  \/ \E c \in ContractIds, bp \in BuyPrices : BuyFrame(c, bp)
  \/ \E c \in ContractIds : SellFrame(c)
  \/ \E i \in 1..Len(entries) : EntryCreate(i)
  \/ \E e \in exits : ExitTrade(e)
  \/ \E e \in exits : ExitInc(e)
  \/ \E e \in exits : ExitFlag(e)
  \/ \E d \in ClockSteps : Advance(d)

ReplaySpec == Init /\ [][NextReplay]_vars

\* contracts the Trade collection holds or is about to hold
KnownContracts ==
  {c \in ContractIds : tradeDocs[c].exists}
    \cup {entries[i].contract_id : i \in 1..Len(entries)}

\* accumulated_profit summed over the documents of the days in S
RECURSIVE ProfitTaken(_)
ProfitTaken(S) ==
  IF S = {} THEN 0
  ELSE LET d == CHOOSE x \in S : TRUE
       IN dailyStats[d].accumulated_profit + ProfitTaken(S \ {d})

\* profit summed over the Trade documents of the contracts in S
RECURSIVE ProfitRecorded(_)
ProfitRecorded(S) ==
  IF S = {} THEN 0
  ELSE LET c == CHOOSE x \in S : TRUE
       IN tradeDocs[c].profit + ProfitRecorded(S \ {c})

\* C20: with buy and sell frames delivered once or more, persistence is what
\* one delivery of each leaves: DailyStat counts no contract twice, and once
\* every call has completed and every known contract is recorded as closed,
\* each record holds the contract's prices and accumulated_profit is the sum
\* of the recorded profits.
C20_ReplayLeavesOneApplication ==
  /\ TradesTaken(Dates) <= Cardinality(KnownContracts)
  /\ (/\ entries = <<>>
      /\ exits = {}
      /\ \A c \in KnownContracts : tradeDocs[c].status = "CLOSED")
       => /\ \A c \in KnownContracts :
               /\ tradeDocs[c].exit_price = SoldPrice(c)
               /\ tradeDocs[c].profit = SoldPrice(c) - tradeDocs[c].entry_price
          /\ ProfitTaken(Dates) = ProfitRecorded(KnownContracts)

\* ------------------------------------------------------------ contracts sold by the broker

\* a proposal_open_contract frame with is_sold = true for an open contract:
\* the filter of Execution.handleMessage and that of MarketData.handleMessage
\* both return, no module has a branch for the msg_type
ContractUpdate(c) ==
  /\ running
  /\ c \in DOMAIN openContracts
  /\ soldReports' = soldReports \cup {c}
  /\ Transmit(<<>>, 0, 0, {})
  /\ UNCHANGED <<linkVars, ledgerVars, bookVars, smcVars, volVars, now, running, engineVars, riskVars,
                 openContracts, dbVars, nextContract>>

NextSold ==
  \/ \E c \in ContractIds, bp \in BuyPrices : BuyFrame(c, bp)
  \/ \E c \in ContractIds : SellFrame(c)
  \/ \E c \in ContractIds : ContractUpdate(c)
  \/ \E i \in 1..Len(entries) : EntryCreate(i)
  \/ \E e \in exits : ExitTrade(e)
  \/ \E e \in exits : ExitInc(e)
  \/ \E e \in exits : ExitFlag(e)

SoldSpec == Init /\ [][NextSold]_vars

\* the step closes contract c: trade_closed reaches the engine, which starts
\* recordTradeExit for it, and both maps drop it
ClosesTrade(c) ==
  /\ c \notin DOMAIN openContracts'
  /\ c \notin DOMAIN activeTrades'
  /\ \E e \in exits' \ exits : e.contract_id = c

\* C21: a frame by which the broker reports an open trade sold, the reply to
\* a sell request or a proposal_open_contract update with is_sold = true,
\* closes the trade: trade_closed is emitted and the contract leaves
\* openContracts and activeTrades.
C21_SoldTradeIsClosed ==
  [][\A c \in ContractIds :
       (/\ SellFrame(c) \/ ContractUpdate(c)
        /\ c \in DOMAIN openContracts
        /\ c \in DOMAIN activeTrades) => ClosesTrade(c)]_vars

\* ------------------------------------------------------------ candle book (SMA engine)

Candle(ep, cl) == [epoch |-> ep, close |-> cl]

\* a history of n candles that ends at BaseEpoch: closed candles of close k,
\* and a forming candle of close cl
History(n, k, cl) ==
  [i \in 1..n |-> IF i = n THEN Candle(BaseEpoch, cl)
                  ELSE Candle(BaseEpoch - n + i, k)]

RECURSIVE SumRange(_, _, _)
\* the sum of v[lo..hi], by halves
SumRange(v, lo, hi) ==
  IF lo > hi THEN 0
  ELSE IF lo = hi THEN v[lo]
  ELSE LET m == (lo + hi) \div 2
       IN SumRange(v, lo, m) + SumRange(v, m + 1, hi)

\* the sum of the last k values of v
SumLast(v, k) == SumRange(v, Len(v) - k + 1, Len(v))

\* the last element of SMA.calculate({period, values}), undefined when the
\* series is shorter than the period
SmaCalculate(period, values) ==
  IF Len(values) >= period THEN SumLast(values, period) \div period ELSE Null

\* a calculateSMAs that averages every candle, the forming one included
ClosedCandlesPricesAll(book) == [i \in 1..Len(book) |-> book[i].close]

\* closePrices.slice(0, -1): the closes of all candles but the last
ClosedCandlesPrices(book) == [i \in 1..(Len(book) - 1) |-> book[i].close]

\* calculateSMAs: the smas it leaves and whether it emits them
CalculateSMAsOf(book, old) ==
  IF Len(book) < MIN_CANDLES
  THEN [smas |-> old, emits |-> FALSE]
  ELSE LET v == ClosedCandlesPrices(book)
       IN [smas |-> [sma200 |-> SmaCalculate(PERIOD_200, v),
                     sma100 |-> SmaCalculate(PERIOD_100, v),
                     sma50 |-> SmaCalculate(PERIOD_50, v),
                     sma25 |-> SmaCalculate(PERIOD_25, v)],
           emits |-> TRUE]

\* the rest of a frame handled by MarketData: with an emission, onSMAs of the
\* engine runs on the emitted smas
BookStep(book, c) ==
  LET cross == Crossover(prevSmas, c.smas)
  IN /\ running
     /\ candles' = book
     /\ mdSmas' = c.smas
     /\ emitted' = IF c.emits THEN <<"smas">> ELSE <<>>
     /\ IF c.emits
        THEN /\ smas' = c.smas
             /\ prevSmas' = c.smas
             /\ cooldownUntil' = IF cross THEN now + CROSSOVER_COOLDOWN
                                 ELSE cooldownUntil
             /\ Transmit(IF cross THEN CloseAllTrades(activeTrades) ELSE <<>>,
                         0, 0, {})
        ELSE /\ UNCHANGED <<smas, prevSmas, cooldownUntil>>
             /\ Transmit(<<>>, 0, 0, {})
     /\ UNCHANGED <<linkVars, ledgerVars, brokerVars, smcVars, volVars, now, running,
                    currentPrice, previousPrice, marketState, activeTrades,
                    isTrading, riskVars, openContracts, dbVars, nextContract>>

\* the candles frame that answers the subscription: the array is replaced,
\* calculateSMAs runs
CandlesFrame(n, k, cl) ==
  LET book == History(n, k, cl)
  IN /\ candles = <<>>
     /\ BookStep(book, CalculateSMAsOf(book, mdSmas))

\* the array after an ohlc frame, and whether its branch calls calculateSMAs
OhlcApplied(book, o) ==
  IF Len(book) > 0 /\ book[Len(book)].epoch = o.epoch
  THEN [candles |-> [book EXCEPT ![Len(book)] = o], recalc |-> FALSE]
  ELSE LET pushed == Append(book, o)
       IN [candles |-> IF Len(pushed) > 300 THEN Tail(pushed) ELSE pushed,
           recalc |-> TRUE]

\* an ohlc frame: an update of the forming candle or the first frame of the
\* next one
OhlcFrame(ep, cl) ==
  LET a == OhlcApplied(candles, Candle(ep, cl))
  IN /\ ep <= BaseEpoch + MaxNewCandles
     /\ IF candles = <<>> THEN ep = BaseEpoch
        ELSE ep \in {candles[Len(candles)].epoch, candles[Len(candles)].epoch + 1}
     /\ BookStep(a.candles,
                 IF a.recalc THEN CalculateSMAsOf(a.candles, mdSmas)
                 ELSE [smas |-> mdSmas, emits |-> FALSE])

NextBook ==
  \/ \E n \in HistorySizes, k \in Closes, cl \in Closes : CandlesFrame(n, k, cl)
  \/ \E ep \in (BaseEpoch - 1)..(BaseEpoch + MaxNewCandles), cl \in Closes :
       OhlcFrame(ep, cl)

BookSpec == Init /\ [][NextBook]_vars


LastEpoch(book) == IF book = <<>> THEN Null ELSE book[Len(book)].epoch

\* the average of the closes of the `period` candles before the last one
ClosedAverage(book, period) ==
  IF Len(book) - 1 >= period
  THEN SumRange([i \in 1..Len(book) |-> book[i].close],
                Len(book) - period, Len(book) - 1) \div period
  ELSE Null

\* C22: an ohlc frame that updates the forming candle, whatever its close,
\* leaves the smas of MarketData and of the engine as they were and emits
\* nothing; the smas change only in a step that starts a candle epoch; and
\* they are the averages of the candles before the forming one.
C22_SmasFromClosedCandles ==
  /\ [][\A ep \in (BaseEpoch - 1)..(BaseEpoch + MaxNewCandles), cl \in Closes :
          (OhlcFrame(ep, cl) /\ ep = LastEpoch(candles)) =>
            /\ mdSmas' = mdSmas
            /\ smas' = smas
            /\ emitted' = <<>>]_vars
  /\ [][mdSmas' # mdSmas => LastEpoch(candles') # LastEpoch(candles)]_vars
  /\ [](Len(candles) >= MIN_CANDLES =>
          mdSmas = [sma200 |-> ClosedAverage(candles, PERIOD_200),
                    sma100 |-> ClosedAverage(candles, PERIOD_100),
                    sma50 |-> ClosedAverage(candles, PERIOD_50),
                    sma25 |-> ClosedAverage(candles, PERIOD_25)])

\* a full book whose forming candle has been moved to the other close after
\* the smas were computed
C22_Witness ==
  /\ Len(candles) = 300
  /\ emitted = <<>>
  /\ candles[300].close = 400
  /\ mdSmas.sma200 = 200
  /\ mdSmas.sma25 = 200


\* ------------------------------------------------------------ multi-timeframe bot

UtcHour(t) == (t \div 60) % 24

\* the session gate: the UTC hour is in [start, end)
SessionOpen(t) ==
  SESSION_START_UTC_HOUR <= UtcHour(t) /\ UtcHour(t) < SESSION_END_UTC_HOUR

\* riskGuardian.updateBalance: the highest balance seen
UpdateBalance(highest, balance) == IF balance >= highest THEN balance ELSE highest

\* the drawdown test: (highest - balance) / highest >= 0.045
KillswitchTrips(highest, balance) ==
  highest > 0 /\ (highest - balance) * 1000 >= KILLSWITCH_THRESHOLD * highest

\* riskGuardian.isTradingAllowed: every guard permits
IsTradingAllowed(t, until) == SessionOpen(t) /\ ~(t < until)

\* a candle_closed listener that does not consult RiskGuardian
CandleClosedRunsAlways(allowed) == TRUE

\* the candle_closed listener of the engine: processTimeframes runs unless
\* isTradingAllowed() is false
CandleClosedRuns(allowed) == allowed

\* processTimeframes down to analyzeExecutionTrigger: nothing while a trade
\* is active; signal says whether the analysis of the candles ends in
\* executeLimitOrder, which sends the proposal
ProcessTimeframes(active, signal) ==
  IF ~active /\ signal
  THEN [activeTrade |-> TRUE, frames |-> <<Frame("proposal", 0)>>]
  ELSE [activeTrade |-> active, frames |-> <<>>]

\* an ohlc branch that appends and never drops the oldest candle
OhlcMdAppliedNoTrim(list, o) ==
  IF Len(list) = 0
  THEN [list |-> list, closed |-> <<>>]
  ELSE IF list[Len(list)].epoch = o.epoch
  THEN [list |-> [list EXCEPT ![Len(list)] = o], closed |-> <<>>]
  ELSE [list |-> Append(list, o), closed |-> <<list[Len(list)]>>]

\* the list after an ohlc frame and the candle that candle_closed carries
OhlcMdApplied(list, o) ==
  IF Len(list) = 0
  THEN [list |-> list, closed |-> <<>>]
  ELSE IF list[Len(list)].epoch = o.epoch
  THEN [list |-> [list EXCEPT ![Len(list)] = o], closed |-> <<>>]
  ELSE LET pushed == Append(list, o)
       IN [list |-> IF Len(pushed) > 300 THEN Tail(pushed) ELSE pushed,
           closed |-> <<list[Len(list)]>>]

Event(n, tf, c) == [name |-> n, timeframe |-> tf, candle |-> c]

\* a balance frame: Execution emits balance_update, the engine stores the
\* balance and calls riskGuardian.updateBalance
BalanceFrame(b) ==
  LET h == UpdateBalance(highestBalance, b)
  IN /\ running
     /\ accountBalance' = b
     /\ highestBalance' = h
     /\ killswitchUntil' = IF KillswitchTrips(h, b)
                           THEN now + KILLSWITCH_MINUTES
                           ELSE killswitchUntil
     /\ Transmit(<<>>, 0, 0, {})
     /\ UNCHANGED <<linkVars, ledgerVars, brokerVars, bookVars, volVars, books, activeTrade,
                    now, running, engineVars, riskVars, openContracts, dbVars,
                    nextContract>>

\* the candles frame of a timeframe: its list is replaced, candles_history
\* is emitted to no listener
CandlesMd(tf, n, cl) ==
  /\ running
  /\ books[tf] = <<>>
  /\ books' = [books EXCEPT ![tf] = History(n, 200, cl)]
  /\ emitted' = <<Event("candles_history", tf, Null)>>
  /\ Transmit(<<>>, 0, 0, {})
  /\ UNCHANGED <<linkVars, ledgerVars, brokerVars, volVars, candles, mdSmas, activeTrade,
                 accountBalance, highestBalance, killswitchUntil, now, running,
                 engineVars, riskVars, openContracts, dbVars, nextContract>>

\* an ohlc frame of a timeframe: the list is updated; with a new epoch
\* candle_closed is emitted and the engine's listener runs; candle_update is
\* emitted to no listener
OhlcMd(tf, ep, cl, signal) ==
  LET a == OhlcMdApplied(books[tf], Candle(ep, cl))
      runs == a.closed # <<>>
                /\ CandleClosedRuns(IsTradingAllowed(now, killswitchUntil))
      p == IF runs THEN ProcessTimeframes(activeTrade, signal)
           ELSE [activeTrade |-> activeTrade, frames |-> <<>>]
  IN /\ running
     /\ ep <= BaseEpoch + MaxMdCandles
     /\ IF books[tf] = <<>> THEN ep = BaseEpoch
        ELSE ep \in {books[tf][Len(books[tf])].epoch,
                     books[tf][Len(books[tf])].epoch + 1}
     /\ books' = [books EXCEPT ![tf] = a.list]
     /\ emitted' = [i \in 1..Len(a.closed) |->
                      Event("candle_closed", tf, a.closed[i])]
                     \o <<Event("candle_update", tf, Null)>>
     /\ activeTrade' = p.activeTrade
     /\ Transmit(p.frames, 0, 0, {})
     /\ UNCHANGED <<linkVars, ledgerVars, brokerVars, volVars, candles, mdSmas,
                    accountBalance, highestBalance, killswitchUntil, now, running,
                    engineVars, riskVars, openContracts, dbVars, nextContract>>

\* time passes between frames
SmcAdvance(d) ==
  /\ running
  /\ now + d <= MaxSmcNow
  /\ now' = now + d
  /\ Transmit(<<>>, 0, 0, {})
  /\ UNCHANGED <<linkVars, ledgerVars, auxVars, running, engineVars, riskVars,
                 openContracts, dbVars, nextContract>>

\* MarketData of the multi-timeframe bot on the frames of its three
\* subscriptions
NextMdBook ==
  \/ \E tf \in Timeframes, n \in MdHistorySizes, cl \in Closes : CandlesMd(tf, n, cl)
  \/ \E tf \in Timeframes, ep \in BaseEpoch..(BaseEpoch + MaxMdCandles),
        cl \in Closes, signal \in BOOLEAN : OhlcMd(tf, ep, cl, signal)

MdBookSpec == Init /\ [][NextMdBook]_vars


\* the candles of a list are in epoch order, so that only the last one can
\* still be forming
EpochsIncrease(list) ==
  \A i \in 1..(Len(list) - 1) : list[i].epoch < list[i + 1].epoch

\* the last n candles of a list
LastCandles(list, n) == SubSeq(list, Len(list) - n + 1, Len(list))

C24_TrainThenTpSlThenEntry ==
  [][\A p \in Prices :
       OnTick(p) =>
         IF TrainDetected(PushTick(tickHistory, p))
         THEN /\ trainResult'
              /\ sent' = CloseAllTrades(activeTrades)
              /\ capChecks' = capChecks
              /\ isTrading' = isTrading
              /\ marketState' = marketState
         ELSE /\ ~trainResult'
              /\ Len(sent') >= Len(CheckOpenTrades(activeTrades, p))
              /\ SubSeq(sent', 1, Len(CheckOpenTrades(activeTrades, p)))
                   = CheckOpenTrades(activeTrades, p)]_vars

\* a train was detected with a trade open whose stop loss the tick had hit:
\* the step sent the closure's sell and nothing else
C24_Witness ==
  /\ trainResult
  /\ DOMAIN activeTrades # {}
  /\ \E c \in DOMAIN activeTrades : TpSlHit(activeTrades[c].entry_price, currentPrice)
  /\ sent = CloseAllTrades(activeTrades)


\* ------------------------------------------------------------ C25

\* the price is at or above one of the averages the engine holds
AtOrAboveAnSma(p, s) ==
  Gte(p, s.sma50) \/ Gte(p, s.sma100) \/ Gte(p, s.sma200)

\* averages of which sma50 lies between the two lower price levels, beside
\* averages that lie above both
EntrySmaValues ==
  { [sma200 |-> 130, sma100 |-> 130, sma50 |-> 100, sma25 |-> 90],
    [sma200 |-> 130, sma100 |-> 130, sma50 |-> 130, sma25 |-> 120] }

\* ticks, SMA updates and the completions of the daily-cap check
NextEntry ==
  \/ \E p \in NextPrices(currentPrice) : OnTick(p)
  \/ \E n \in CandleCounts, v \in EntrySmaValues : OnSMAs(n, v)
  \/ \E i \in 1..Len(capChecks) : CapFind(i)
  \/ \E i \in 1..Len(capChecks) : CapCreate(i)
  \/ \E code \in ReplyErrorCodes : ProposalError(code)

EntrySpec == Init /\ [][NextEntry]_vars

\* C25: a tick that rises by more than 4.0 to a price at or above sma50,
\* sma100 or sma200 starts no entry: executeTrade is not entered, so no
\* daily-cap check is begun and no proposal follows from this tick.
C25_SpikeIntoRestrictedNotTraded ==
  [][\A p \in Prices :
       (/\ OnTick(p)
        /\ currentPrice # Null
        /\ IsSpike(p - currentPrice)
        /\ AtOrAboveAnSma(p, smas))
         => (capChecks' = capChecks /\ isTrading' = isTrading)]_vars


\* ------------------------------------------------------------ C26

SmcHistorySizes == {299}
SmcCloses == {200}
SmcTimeframes == {"M15", "M5"}

\* the multi-timeframe bot on its balance frames, candle frames and clock
NextSmc ==
  \/ \E b \in Balances : BalanceFrame(b)
  \/ \E tf \in SmcTimeframes, n \in SmcHistorySizes, cl \in SmcCloses :
       CandlesMd(tf, n, cl)
  \/ \E tf \in SmcTimeframes, ep \in BaseEpoch..(BaseEpoch + MaxMdCandles),
        cl \in SmcCloses, signal \in BOOLEAN : OhlcMd(tf, ep, cl, signal)
  \/ \E d \in SmcClockSteps : SmcAdvance(d)

SmcSpec == Init /\ [][NextSmc]_vars


C27_ProposalOnlyWhenAllGuardsPermit ==
  ProposalSent =>
    /\ SessionOpen(now)
    /\ ~(now < killswitchUntil)
    /\ ~PauseActive(isPaused, pauseUntil)
    /\ ~CapReached(dailyStats[Today])


\* ------------------------------------------------------------ C28

\* DailyStat.findOne or DailyStat.create of a daily-cap check rejects:
\* checkDailyCap and executeTrade have no catch and onTick does not await
\* executeTrade, so the rejection reaches the unhandledRejection handler,
\* which exits the process; isTrading was set before the await and stays set
CapCheckFailed(i) ==
  /\ running
  /\ capChecks[i].pc \in {"find", "create"}
  /\ capChecks' = RemoveAt(capChecks, i)
  /\ running' = FALSE
  /\ Transmit(<<>>, 0, 0, {})
  /\ UNCHANGED <<linkVars, auxVars, ledgerVars, now, engineVars, riskVars,
                 openContracts, dailyStats, exits, nextContract>>

\* Trade.create of recordTradeEntry rejects: the catch logs it, no document
EntryCreateFailed(i) ==
  /\ running
  /\ entries' = RemoveAt(entries, i)
  /\ Transmit(<<>>, 0, 0, {})
  /\ UNCHANGED <<linkVars, auxVars, tradeDocs, now, running, engineVars, riskVars,
                 openContracts, dbVars, nextContract>>

\* Trade.findOneAndUpdate of recordTradeExit rejects: the catch logs it and
\* updateDailyStats is not called
ExitTradeFailed(e) ==
  /\ running
  /\ e.pc = "trade"
  /\ exits' = exits \ {e}
  /\ Transmit(<<>>, 0, 0, {})
  /\ UNCHANGED <<linkVars, auxVars, ledgerVars, now, running, engineVars, riskVars,
                 openContracts, dailyStats, capChecks, nextContract>>

\* the bot with a database whose calls can fail
NextDbFail ==
  \/ \E p \in NextPrices(currentPrice) : OnTick(p)
  \/ \E n \in CandleCounts, v \in SmaValues : OnSMAs(n, v)
  \/ \E i \in 1..Len(capChecks) : CapFind(i)
  \/ \E i \in 1..Len(capChecks) : CapCreate(i)
  \/ \E i \in 1..Len(capChecks) : CapCheckFailed(i)
  \/ \E code \in ReplyErrorCodes : ProposalError(code)
  \/ \E bp \in BuyPrices : BuyFrame(1, bp)
  \/ SellFrame(1)
  \/ \E i \in 1..Len(entries) : EntryCreateFailed(i)
  \/ \E e \in exits : ExitTradeFailed(e)

DbFailSpec == Init /\ [][NextDbFail]_vars

\* C28: a database call that fails leaves the process running and the entry
\* lock free: after a failed daily-stat lookup or creation isTrading is
\* false, and a failed trade entry or exit write changes nothing the entry
\* logic reads.
C28_DbFailureDoesNotBlockTrading ==
  /\ [][\A i \in 1..Len(capChecks) :
          CapCheckFailed(i) => (running' /\ ~isTrading')]_vars
  /\ [][\A i \in 1..Len(entries) :
          EntryCreateFailed(i)
            => (running' /\ UNCHANGED <<engineVars, riskVars, dailyStats>>)]_vars
  /\ [][\A e \in exits :
          ExitTradeFailed(e)
            => (running' /\ UNCHANGED <<engineVars, riskVars, dailyStats>>)]_vars


\* ------------------------------------------------------------ C29

\* the Deriv link with timers that fire and a network that delivers: a step
\* of the link that stays possible is eventually taken
DerivFairSpec == DerivSpec /\ WF_vars(NextDeriv)

\* C29: whenever the socket of the Deriv link has closed, the link is open
\* again at some later time.
C29_ClosedLinkReopens == (dWs = "closed") ~> (dWs = "open")


\* ------------------------------------------------------------ C30

\* entry prices that put the three price levels on both sides of the take
\* profit and of the stop loss
TpSlBuyPrices == {102, 103, 219, 220}

\* ticks and SMA updates with trades being opened
NextTpSl ==
  \/ \E p \in NextPrices(currentPrice) : OnTick(p)
  \/ \E n \in CandleCounts, v \in SmaValues : OnSMAs(n, v)
  \/ \E c \in ContractIds, bp \in TpSlBuyPrices : BuyFrame(c, bp)

TpSlSpec == Init /\ [][NextTpSl]_vars

\* the number of sell frames for contract c among the frames of a step
SellsFor(frames, c) ==
  Cardinality({i \in 1..Len(frames) : frames[i] = Frame("sell", c)})

\* C30: on a tick that completes no train, each open trade gets one
\* take-profit / stop-loss sell when entry_price - price >= 15.0 or
\* price - entry_price >= 5.0 and none otherwise, beside the one sell per
\* trade of a closure for the restricted state; nothing else is sent.
C30_TpSlSells ==
  [][\A p \in Prices :
       (OnTick(p) /\ ~trainResult') =>
         LET closure == IF /\ currentPrice # Null
                           /\ CooldownOver(cooldownUntil)
                           /\ marketState' = "RESTRICTED"
                        THEN 1 ELSE 0
         IN /\ \A c \in DOMAIN activeTrades :
                 LET diff == activeTrades[c].entry_price - p
                 IN SellsFor(sent', c)
                      = closure + (IF diff >= 150 THEN 1
                                   ELSE IF -diff >= 50 THEN 1 ELSE 0)
            /\ \A i \in 1..Len(sent') :
                 sent'[i].type = "sell" /\ sent'[i].id \in DOMAIN activeTrades]_vars

\* a tick took one trade to exactly 15.0 of profit and left the other at
\* 14.9: the step sent the sell of the first alone
C30_Witness ==
  /\ ~trainResult
  /\ \E c \in DOMAIN activeTrades, k \in DOMAIN activeTrades :
       /\ activeTrades[c].entry_price - currentPrice = 150
       /\ activeTrades[k].entry_price - currentPrice = 149
       /\ sent = <<Frame("sell", c)>>


\* ------------------------------------------------------------ C31

\* entry prices of which the lower has its stop loss hit at 11.1
CloseBuyPrices == {61, 100}

\* ticks and SMA updates around averages that the middle price level
\* reaches, with trades being opened
NextClose ==
  \/ \E p \in NextPrices(currentPrice) : OnTick(p)
  \/ \E n \in CandleCounts, v \in EntrySmaValues : OnSMAs(n, v)
  \/ \E c \in ContractIds, bp \in CloseBuyPrices : BuyFrame(c, bp)

CloseSpec == Init /\ [][NextClose]_vars

\* C31: a tick handled with a previous price known and the cooldown over
\* that leaves the market state RESTRICTED sends a sell for every active
\* trade.
C31_RestrictedClosesAll ==
  [][\A p \in Prices :
       (/\ OnTick(p)
        /\ currentPrice # Null
        /\ CooldownOver(cooldownUntil)
        /\ marketState' = "RESTRICTED"
        /\ DOMAIN activeTrades # {})
         => \A c \in DOMAIN activeTrades : SellsFor(sent', c) >= 1]_vars

\* the price reached sma50 with two trades open and no train: the state is
\* RESTRICTED and both trades were sold
C31_Witness ==
  /\ marketState = "RESTRICTED"
  /\ ~trainResult
  /\ smas.sma200 # Null
  /\ currentPrice >= smas.sma50
  /\ previousPrice # Null
  /\ DOMAIN activeTrades = ContractIds
  /\ \A c \in ContractIds : SellsFor(sent, c) >= 1


\* ------------------------------------------------------------ C32

\* C32: a sell frame for a contract that is not among the active trades
\* leaves the active trades, isTrading, the cooldown, the DailyStat rows,
\* the Trade documents and the pending database calls as they were, and the
\* process running.
C32_UnknownCloseChangesNothing ==
  [][\A c \in ContractIds :
       (SellFrame(c) /\ c \notin DOMAIN activeTrades)
         => /\ UNCHANGED <<activeTrades, isTrading, cooldownUntil, dailyStats,
                           exits, entries, tradeDocs, capChecks>>
            /\ running']_vars

\* contract 1 was bought, sold and counted; its trade is gone and its sell
\* frame can arrive once more
C32_Witness ==
  /\ 1 \notin DOMAIN activeTrades
  /\ tradeDocs[1].status = "CLOSED"
  /\ TradesTaken(Dates) = 1
  /\ exits # {}
  /\ \A e \in exits : e.contract_id = 1 /\ e.pc = "flag"
  /\ ENABLED SellFrame(1)


\* ------------------------------------------------------------ C33

\* a day passes with nothing else happening: Date.now() is in the next UTC
\* date
DayAdvance ==
  /\ running
  /\ now + MinutesPerDay <= MaxDayNow
  /\ now' = now + MinutesPerDay
  /\ Transmit(<<>>, 0, 0, {})
  /\ UNCHANGED <<linkVars, auxVars, ledgerVars, running, engineVars, riskVars,
                 openContracts, dbVars, nextContract>>

\* the bot over midnight: entries, exits and their database calls
NextDayStat ==
  \/ \E p \in NextPrices(currentPrice) : OnTick(p)
  \/ \E v \in SmaValues : OnSMAs(MIN_CANDLES + 1, v)
  \/ ProposalReply
  \/ \E bp \in BuyPrices : BuyReply(bp)
  \/ \E c \in ContractIds : SellReply(c, SoldPrice(2))
  \/ \E i \in 1..Len(capChecks) : CapFind(i)
  \/ \E i \in 1..Len(capChecks) : CapCreate(i)
  \/ \E e \in exits : ExitTrade(e)
  \/ \E e \in exits : ExitInc(e)
  \/ DayAdvance

DayStatSpec == Init /\ [][NextDayStat]_vars

\* C33: DailyStat.create of a daily-cap check and the upsert of
\* updateDailyStats complete without an error, whatever the order in which
\* the database serves them: neither completion ends the process.
C33_DailyStatCallsNeverFail ==
  /\ [][\A i \in 1..Len(capChecks) : CapCreate(i) => running']_vars
  /\ [][\A e \in exits : ExitInc(e) => running']_vars


\* ------------------------------------------------------------ C34

\* C34: when a proposal request is sent the market state is PERMISSIVE, the
\* cooldown is over and the train pause is not in force.
C34_EntryConditionsHoldAtSend ==
  ProposalSent =>
    /\ marketState = "PERMISSIVE"
    /\ CooldownOver(cooldownUntil)
    /\ ~PauseActive(isPaused, pauseUntil)


\* ------------------------------------------------------------ C35

\* C35: a buy is sent only while the entry attempt that asked for the
\* proposal is in progress, that is with isTrading set.
C35_BuyOnlyForLiveAttempt ==
  Count(sent, "buy") > 0 => isTrading



\* ------------------------------------------------------------ C36

\* C36: a tick sends at most one sell for a contract, and none for a
\* contract whose earlier sell is still unanswered.
C36_OneSellPerContract ==
  [][\A p \in Prices :
       OnTick(p) =>
         \A c \in ContractIds :
           SellsFor(sent', c) <= (IF c \in sellReq THEN 0 ELSE 1)]_vars



\* ------------------------------------------------------------ C37

\* C37: between handlers the contracts Execution tracks as open are the
\* contracts the engine holds as active trades.
C37_OpenContractsAreActiveTrades ==
  DOMAIN openContracts = DOMAIN activeTrades

\* contract 1 was bought and sold, contract 2 was bought and is held by
\* both modules
C37_Witness ==
  /\ DOMAIN openContracts = {2}
  /\ DOMAIN activeTrades = {2}
  /\ \E e \in exits : e.contract_id = 1



\* ------------------------------------------------------------ Volatility100Strategy

\* what calculateBollingerBands makes of the buffer, as onTick reads it: no
\* bands, the price above the upper band, below the lower band, or inside
BandSignals == {"none", "above", "below", "inside"}

\* results of a proposal or buy request: the reply, or an error with a code
VolReplies == {"ok", "RateLimit", "Refused"}

\* the profit the broker reports for contract c: every update of c carries it
VolProfit(c) == IF c = 1 THEN 50 ELSE -40

\* _cleanupTrade
CleanupTrade ==
  /\ currentContractId' = Null
  /\ isTradeOpen' = FALSE
  /\ isArmed' = FALSE

\* the catch block of executeTrade: a pause of 2 s for a rate limit, then
\* _cleanupTrade
TradeFailed(res) ==
  /\ stratPaused' = (stratPaused \/ res = "RateLimit")
  /\ pauseTimers' = pauseTimers + (IF res = "RateLimit" THEN 1 ELSE 0)
  /\ CleanupTrade

\* onTick calls executeTrade: the buffer is full, there are bands, no trade
\* is open, the squeeze has armed the strategy and the price is outside
VolFires(sig) ==
  /\ ~(buffer + 1 < TICK_LIMIT)
  /\ ~isTradeOpen
  /\ isArmed
  /\ sig \in {"above", "below"}

\* a tick frame: onTick, executeTrade up to the send of its proposal
\* request, then _checkSqueeze with the bandwidth of the tick
VolTick(sig, squeeze) ==
  /\ ~stratPaused
  /\ VolFires(sig) => Len(volAttempts) < MaxVolAttempts
  /\ buffer' = IF buffer < TICK_LIMIT THEN buffer + 1 ELSE buffer
  /\ IF buffer + 1 < TICK_LIMIT \/ sig = "none" \/ isTradeOpen
     THEN UNCHANGED <<isArmed, isTradeOpen, volAttempts>>
     ELSE /\ isArmed' = squeeze
          /\ isTradeOpen' = VolFires(sig)
          /\ volAttempts' = IF VolFires(sig)
                            THEN Append(volAttempts, "proposal")
                            ELSE volAttempts
  /\ UNCHANGED <<stratPaused, pauseTimers, currentContractId, stratBalance,
                 volEntries, volExits, volTrades, volStat, volOpen, volSold,
                 volNext>>
  /\ UNCHANGED <<now, running, engineVars, riskVars, openContracts, dbVars,
                 ledgerVars, brokerVars, bookVars, smcVars, wireVars,
                 nextContract, linkVars>>

\* the reply to the proposal request of attempt i resolves its send: the buy
\* request goes out, or the attempt fails
VolProposalReply(i, res) ==
  /\ volAttempts[i] = "proposal"
  /\ res = "RateLimit" => pauseTimers < MaxPauseTimers
  /\ IF res = "ok"
     THEN /\ volAttempts' = [volAttempts EXCEPT ![i] = "buy"]
          /\ UNCHANGED <<isArmed, isTradeOpen, stratPaused, pauseTimers,
                         currentContractId>>
     ELSE /\ volAttempts' = RemoveAt(volAttempts, i)
          /\ TradeFailed(res)
  /\ UNCHANGED <<buffer, stratBalance, volEntries, volExits, volTrades,
                 volStat, volOpen, volSold, volNext>>
  /\ UNCHANGED <<now, running, engineVars, riskVars, openContracts, dbVars,
                 ledgerVars, brokerVars, bookVars, smcVars, wireVars,
                 nextContract, linkVars>>

\* the reply to the buy request of attempt i: the broker has opened a
\* contract, which becomes the current one and whose recordTradeEntry
\* starts, or the attempt fails
VolBuyReply(i, res) ==
  /\ volAttempts[i] = "buy"
  /\ res = "RateLimit" => pauseTimers < MaxPauseTimers
  /\ volAttempts' = RemoveAt(volAttempts, i)
  /\ IF res = "ok"
     THEN /\ volNext <= MaxVolContracts
          /\ currentContractId' = volNext
          /\ volNext' = volNext + 1
          /\ volOpen' = volOpen \cup {volNext}
          /\ volEntries' = volEntries \cup {volNext}
          /\ UNCHANGED <<isArmed, isTradeOpen, stratPaused, pauseTimers>>
     ELSE /\ TradeFailed(res)
          /\ UNCHANGED <<volNext, volOpen, volEntries>>
  /\ UNCHANGED <<buffer, stratBalance, volExits, volTrades, volStat, volSold>>
  /\ UNCHANGED <<now, running, engineVars, riskVars, openContracts, dbVars,
                 ledgerVars, brokerVars, bookVars, smcVars, wireVars,
                 nextContract, linkVars>>

\* a proposal_open_contract frame with is_sold for contract c, the first or
\* a further one: onContractUpdate up to its await of recordTradeExit.  An
\* update without is_sold changes nothing.
VolContractSold(c) ==
  /\ c \in volOpen \cup volSold
  /\ volOpen' = volOpen \ {c}
  /\ volSold' = volSold \cup {c}
  /\ IF currentContractId = Null \/ c # currentContractId
     THEN UNCHANGED <<stratBalance, volExits>>
     ELSE /\ Len(volExits) < MaxVolExits
          /\ stratBalance' = stratBalance + VolProfit(c)
          /\ volExits' = Append(volExits, [contract_id |-> c,
                                           profit |-> VolProfit(c),
                                           pc |-> "trade"])
  /\ UNCHANGED <<buffer, isArmed, isTradeOpen, stratPaused, pauseTimers,
                 currentContractId, volAttempts, volEntries, volTrades,
                 volStat, volNext>>
  /\ UNCHANGED <<now, running, engineVars, riskVars, openContracts, dbVars,
                 ledgerVars, brokerVars, bookVars, smcVars, wireVars,
                 nextContract, linkVars>>

\* trade.save of recordTradeEntry completes
VolEntrySave(c) ==
  /\ c \in volEntries
  /\ volEntries' = volEntries \ {c}
  /\ volTrades' = IF volTrades[c] = "none"
                  THEN [volTrades EXCEPT ![c] = "OPEN"]
                  ELSE volTrades
  /\ UNCHANGED <<buffer, isArmed, isTradeOpen, stratPaused, pauseTimers,
                 currentContractId, stratBalance, volAttempts, volExits,
                 volStat, volOpen, volSold, volNext>>
  /\ UNCHANGED <<now, running, engineVars, riskVars, openContracts, dbVars,
                 ledgerVars, brokerVars, bookVars, smcVars, wireVars,
                 nextContract, linkVars>>

\* Trade.findOneAndUpdate of recordTradeExit call i completes: with a
\* document updateDailyStats starts, without one recordTradeExit returns and
\* onContractUpdate goes on to _cleanupTrade
VolExitTrade(i) ==
  LET e == volExits[i]
  IN /\ e.pc = "trade"
     /\ IF volTrades[e.contract_id] # "none"
        THEN /\ volTrades' = [volTrades EXCEPT ![e.contract_id] = "CLOSED"]
             /\ volExits' = [volExits EXCEPT ![i].pc = "stat"]
             /\ UNCHANGED <<currentContractId, isTradeOpen, isArmed>>
        ELSE /\ volExits' = RemoveAt(volExits, i)
             /\ CleanupTrade
             /\ UNCHANGED volTrades
     /\ UNCHANGED <<buffer, stratPaused, pauseTimers, stratBalance,
                    volAttempts, volEntries, volStat, volOpen, volSold,
                    volNext>>
     /\ UNCHANGED <<now, running, engineVars, riskVars, openContracts, dbVars,
                    ledgerVars, brokerVars, bookVars, smcVars, wireVars,
                    nextContract, linkVars>>

\* DailyStat.findOneAndUpdate of updateDailyStats completes for call i:
\* recordTradeExit returns and onContractUpdate goes on to _cleanupTrade
VolExitStat(i) ==
  LET e == volExits[i]
  IN /\ e.pc = "stat"
     /\ volStat' = [accumulated_profit |-> volStat.accumulated_profit + e.profit,
                    trades_taken |-> volStat.trades_taken + 1]
     /\ volExits' = RemoveAt(volExits, i)
     /\ CleanupTrade
     /\ UNCHANGED <<buffer, stratPaused, pauseTimers, stratBalance,
                    volAttempts, volEntries, volTrades, volOpen, volSold,
                    volNext>>
     /\ UNCHANGED <<now, running, engineVars, riskVars, openContracts, dbVars,
                    ledgerVars, brokerVars, bookVars, smcVars, wireVars,
                    nextContract, linkVars>>

\* a timer of pause fires
VolResume ==
  /\ pauseTimers > 0
  /\ pauseTimers' = pauseTimers - 1
  /\ stratPaused' = FALSE
  /\ UNCHANGED <<buffer, isArmed, isTradeOpen, currentContractId,
                 stratBalance, volAttempts, volEntries, volExits, volTrades,
                 volStat, volOpen, volSold, volNext>>
  /\ UNCHANGED <<now, running, engineVars, riskVars, openContracts, dbVars,
                 ledgerVars, brokerVars, bookVars, smcVars, wireVars,
                 nextContract, linkVars>>

NextVol ==
  \/ \E sig \in BandSignals, squeeze \in BOOLEAN : VolTick(sig, squeeze)
  \/ \E i \in 1..Len(volAttempts), res \in VolReplies : VolProposalReply(i, res)
  \/ \E i \in 1..Len(volAttempts), res \in VolReplies : VolBuyReply(i, res)
  \/ \E c \in 1..MaxVolContracts : VolContractSold(c)
  \/ \E c \in 1..MaxVolContracts : VolEntrySave(c)
  \/ \E i \in 1..Len(volExits) : VolExitTrade(i)
  \/ \E i \in 1..Len(volExits) : VolExitStat(i)
  \/ VolResume

VolSpec == Init /\ [][NextVol]_vars


\* ------------------------------------------------------------ C38

\* C38: at most one trade of the backend strategy is in flight or open at
\* the broker, and isTradeOpen is set for as long as one is.
C38_OneTradeAtATime ==
  /\ Len(volAttempts) + Cardinality(volOpen) <= 1
  /\ (volAttempts # <<>> \/ volOpen # {}) => isTradeOpen


\* ------------------------------------------------------------ C39

RECURSIVE VolProfitOf(_)
VolProfitOf(S) ==
  IF S = {} THEN 0
  ELSE LET c == CHOOSE x \in S : TRUE
       IN VolProfit(c) + VolProfitOf(S \ {c})

\* C39: accountBalance holds the profit of every contract reported sold
\* once, and DailyStat counts no sold contract twice.
C39_EachSaleSettledOnce ==
  /\ stratBalance = VolProfitOf(volSold)
  /\ volStat.trades_taken <= Cardinality(volSold)
  /\ volExits = <<>> => volStat.accumulated_profit = VolProfitOf({c \in volSold : volTrades[c] = "CLOSED"})



\* ------------------------------------------------------------ C40

\* the sockets of the manager that are connecting or open
LiveSockets == {i \in 1..Len(sockets) : sockets[i] \in {"connecting", "open"}}

\* C40: at every instant the manager has at most one of a connecting or
\* open socket and a pending reconnect timer, and the close of a socket
\* that close() did not ask for sets exactly one reconnect timer.
C40_OneLinkOrOneTimer ==
  /\ [](Cardinality(LiveSockets) + Len(timers) <= 1)
  /\ [][\A i \in 1..Len(sockets) :
          (SocketClosed(i) /\ ~isExplicitlyClosed)
            => Len(timers') = Len(timers) + 1]_vars

\* the link was lost twice in a row: the second reconnect is pending and no
\* socket is connecting or open
C40_Witness ==
  /\ schedSinceOpen = 2
  /\ Len(timers) = 1
  /\ LiveSockets = {}
=============================================================================
